---- MODULE Spec2Model ----
(***************************************************************************)
(* A model of the three native grid kernels of brileta / catley:           *)
(*   - wfc_solve  (src/catley/util/_native_wfc.c)                          *)
(*   - fov        (src/catley/util/_native_fov.c)                          *)
(*   - astar      (src/brileta/util/native/_native_pathfinding.c)          *)
(* Each kernel has its own specification (SpecWfc, SpecFov, SpecAstar);    *)
(* the variables of the other two kernels stay at their initial values.    *)
(*                                                                         *)
(* Conventions.                                                            *)
(*  - A uint8 pattern mask is the set of its set bit positions, so that    *)
(*    a & b is the intersection, popcount the cardinality and 1U << b the  *)
(*    singleton {b}.                                                       *)
(*  - Flat cell indices are the code's: idx = x * height + y.              *)
(*  - C arrays are 0-based; a heap slot i of the code is element i + 1 of  *)
(*    the sequence that models the array.                                  *)
(*  - Entropies are fixed-point numbers in units of 1/10000.               *)
(*  - rng_next_double returns k / RngDen for a k in 0 .. RngDen - 1; the   *)
(*    seed is an input of the call, so every draw ranges over all k.       *)
(*  - Every malloc, calloc and realloc may fail.  The capacities the code  *)
(*    starts its growable arrays with (64 for the WFC heap and stack, 32   *)
(*    for the FOV sector stack, at most 256 for the astar heap) are scaled *)
(*    down to MinCapacity, SectorCapacity and HeapCapLimit, so that the    *)
(*    grids of the model outgrow them and the realloc branches are taken.  *)
(*  - A working buffer is a record [ptr, allocs, frees]: the state of the  *)
(*    pointer the code holds ("null", "live", or "dangling" after a free   *)
(*    that did not reset it) and how often the block was obtained and      *)
(*    released.  A realloc that succeeds keeps the buffer.                 *)
(*  - The doubles of astar are exact numbers a + b * sqrt(2).              *)
(***************************************************************************)
EXTENDS Integers, Sequences, FiniteSets, TLC

\* ------------------------------------------------------------------------
\* Bounds of the model
\* ------------------------------------------------------------------------
MaxWidth == 2
MaxHeight == 2
MaxPatterns == 3
MaxCells == 4

\* The weights a pattern may carry (zero is legal).
WeightValues == {0, 1}

\* rng_next_double returns k / RngDen, k in 0 .. RngDen - 1: fine enough for
\* weighted_choice to reach every one of MaxPatterns equally weighted bits.
RngDen == MaxPatterns + 1

\* The least capacity heap_init and stack_init allocate: 64 in the code,
\* scaled to the grids of the model.
MinCapacity == 2

\* ------------------------------------------------------------------------
\* WFC: state
\* ------------------------------------------------------------------------
VARIABLES
    width, height, num_patterns,      \* int arguments of wfc_solve
    propagation_shape,                \* shape of the propagation_masks buffer
    propagation_masks,                \* [dir -> [mask -> mask]]
    pattern_weights,                  \* sequence of weights (0-based: w[b+1])
    wave_shape,                       \* shape of the caller's initial_wave
    initial_wave,                     \* the caller's buffer (flat, 0-based)
    wave_before,                      \* contents of initial_wave at call time
    wave_copy,                        \* the private copy (<<>> while NULL)
    heap, heap_counter,               \* entropy heap data and tie-breaker
    stack, in_stack,                  \* propagation stack and its flags
    uncollapsed_cells, iterations,    \* locals of wfc_solve_inner
    prop_iterations, prop_idx, prop_mask, prop_dir,   \* locals of propagate
    scan_idx, cell_idx,               \* loop index / chosen cell
    allocated,                        \* working buffers currently owned
    wfc_mem,                          \* [buffer -> [ptr, allocs, frees]]
    heap_capacity, stack_capacity,    \* heap.capacity, stack.capacity
    wfc_pc, outcome, result,
    POPCOUNT_TABLE, POPCOUNT_READY,   \* the statics of the module: they outlive a call
    rng_trace,                        \* the draws of rng_next_double in this call
    call_no,                          \* 0: a single call; 1, 2: first and repeated call
    replay,                           \* the stream the seed yields (draws of call 1)
    first_outcome, first_result,      \* what call 1 returned
    th_pc, th_i, th_lookup            \* threads inside ensure_popcount_table

wfcInputs == <<width, height, num_patterns, propagation_shape,
               propagation_masks, pattern_weights, wave_shape, wave_before>>
wfcSolver == <<heap, heap_counter, stack, in_stack, uncollapsed_cells,
               iterations, prop_iterations, prop_idx, prop_mask, prop_dir,
               scan_idx, cell_idx>>
wfcMemory == <<wfc_mem, heap_capacity, stack_capacity>>
wfcStatics == <<POPCOUNT_TABLE, POPCOUNT_READY>>
wfcReplay == <<call_no, replay, first_outcome, first_result>>
popThreads == <<th_pc, th_i, th_lookup>>
wfcCall == <<wfcInputs, initial_wave, wave_copy, wfcSolver, allocated, wfcMemory,
             wfc_pc, outcome, result>>
wfcVars == <<wfcCall, wfcStatics, rng_trace, wfcReplay, popThreads>>

\* ------------------------------------------------------------------------
\* FOV: state (width and height are shared with the arguments above)
\* ------------------------------------------------------------------------
VARIABLES
    transparent,                      \* [cell -> BOOLEAN], read only
    visible,                          \* [cell -> BOOLEAN], the output buffer
    ox, oy, radius,                   \* int arguments of fov
    quadrant,                         \* loop index i of catley_native_fov
    sectors,                          \* the sector stack of scan_quadrant
    sector_capacity,                  \* its capacity
    fov_mem,                          \* [buffer -> [ptr, allocs, frees]]
    fov_pc, fov_rc

fovMemory == <<sector_capacity, fov_mem>>
fovVars == <<transparent, visible, ox, oy, radius, quadrant, sectors, fovMemory,
             fov_pc, fov_rc>>

\* ------------------------------------------------------------------------
\* A*: state
\* ------------------------------------------------------------------------
VARIABLES
    cost, cost_w, cost_h,             \* the cost grid and its shape (w, h)
    sx, sy, gx, gy,                   \* int arguments of astar
    g_score, came_from, closed,       \* working arrays of astar_search
    heap_pos,                         \* pos[idx]: heap slot of idx, or -1
    open,                             \* the MinHeap data (slot i is open[i+1])
    ci, dir_d,                        \* popped cell, direction loop index d
    found,
    path,                             \* the returned list (flat indices)
    open_capacity,                    \* heap.capacity
    astar_mem,                        \* [buffer -> [ptr, allocs, frees]]
    astar_pc, astar_rc

astarInputs == <<cost, cost_w, cost_h, sx, sy, gx, gy>>
astarMemory == <<open_capacity, astar_mem>>
astarVars == <<astarInputs, g_score, came_from, closed, heap_pos, open, ci, dir_d,
               found, path, astarMemory, astar_pc, astar_rc>>

\* ------------------------------------------------------------------------
\* Working memory
\* ------------------------------------------------------------------------
\* No buffer obtained yet: every pointer is NULL.
NoBuffers(names) == [b \in names |-> [ptr |-> "null", allocs |-> 0, frees |-> 0]]

\* A successful malloc / calloc into the pointer b.
Allocate(mem, b) ==
    [mem EXCEPT ![b] = [ptr |-> "live", allocs |-> @.allocs + 1, frees |-> @.frees]]

\* free(b): nothing for a NULL pointer, a release of the block otherwise
\* (a second release if the pointer dangles); the pointer keeps its value.
Release(mem, b) ==
    IF mem[b].ptr = "null" THEN mem
    ELSE [mem EXCEPT ![b] = [ptr |-> "dangling", allocs |-> @.allocs, frees |-> @.frees + 1]]

\* free(b); b = NULL;
ReleaseAndClear(mem, b) == [Release(mem, b) EXCEPT ![b].ptr = "null"]

\* free() of every pointer of the sequence bs, in order.
RECURSIVE ReleaseAll(_, _)
ReleaseAll(mem, bs) ==
    IF Len(bs) = 0 THEN mem ELSE ReleaseAll(Release(mem, Head(bs)), Tail(bs))

\* The outcomes of the realloc of a push: it is called only when the array
\* is full.
ReallocOutcomes(size, capacity) == IF size >= capacity THEN BOOLEAN ELSE {TRUE}

\* The capacity after a push that succeeded.
Doubled(size, capacity) == IF size >= capacity THEN capacity * 2 ELSE capacity

WfcBuffers == {"wave_copy", "heap", "stack", "in_stack"}

\* The cleanup block without free(wave_copy).
WfcCleanupLeakingWave(mem) ==
    Release(ReleaseAndClear(ReleaseAndClear(mem, "heap"), "stack"), "in_stack")

\* cleanup: heap_free, stack_free, free(in_stack), free(wave_copy).
WfcCleanup(mem) ==
    Release(Release(ReleaseAndClear(ReleaseAndClear(mem, "heap"), "stack"), "in_stack"),
            "wave_copy")

\* ------------------------------------------------------------------------
\* WFC: popcount, entropy, heap
\* ------------------------------------------------------------------------
Bits(n) == 0 .. (n - 1)

\* The table has one entry per byte: 2^8 in the code, 2^TableBits here. A
\* byte is the set of its set bits, as every mask of the model.
TableBits == 3
Masks == SUBSET Bits(TableBits)

\* The byte with the value i.
MaskOf(i) == {b \in Bits(TableBits) : (i \div (2^b)) % 2 = 1}

\* The statics as the loader leaves them: zero-initialised.
ZeroTable == [m \in Masks |-> 0]
StaticsAtLoad == POPCOUNT_TABLE = ZeroTable /\ POPCOUNT_READY = 0

\* The count c the loop over the bits of i arrives at.
BitCount(mask) == Cardinality(mask)

\* An initializer that adds c to the entry and does not test the flag.
ensure_popcount_table_adding(ready, table) ==
    [m \in Masks |-> table[m] + BitCount(m)]

\* ensure_popcount_table run by one thread alone: the table it leaves.
ensure_popcount_table(ready, table) ==
    IF ready = 1 THEN table ELSE [m \in Masks |-> BitCount(m)]

popcount_u8(mask) == POPCOUNT_TABLE[mask]

\* The threads that may be inside ensure_popcount_table together.
NumThreads == 2
Threads == 1 .. NumThreads
ThreadsIdle ==
    /\ th_pc = [t \in Threads |-> "idle"]
    /\ th_i = [t \in Threads |-> 0]
    /\ th_lookup = [t \in Threads |-> <<>>]

\* No earlier call is on record.
NoEarlierCall ==
    /\ rng_trace = <<>> /\ replay = <<>>
    /\ first_outcome = "none" /\ first_result = <<>>

\* The solver is not running: a freshly loaded module.
WfcAtLoad == StaticsAtLoad /\ ThreadsIdle /\ NoEarlierCall /\ call_no = 0

\* 10000 * ln(n), rounded, for n = 1 .. 16.
LnScaled == <<0, 6931, 10986, 13863, 16094, 17918, 19459, 20794,
              21972, 23026, 23979, 24849, 25649, 26391, 27081, 27726>>

RECURSIVE SumOver(_, _)
SumOver(f, S) == IF S = {} THEN 0
                 ELSE LET b == CHOOSE x \in S : TRUE
                      IN f[b] + SumOver(f, S \ {b})

\* Weight of pattern bit b.
WeightOf(weights, b) == weights[b + 1]

\* Sum of the weights of the bits of mask below n.
TotalWeight(weights, mask, n) ==
    SumOver([b \in Bits(n) |-> WeightOf(weights, b)], mask \cap Bits(n))

\* -sum p ln p with p = w / total, i.e. ln total - (sum w ln w) / total,
\* over the set bits with w > 0.
ShannonScaled(weights, mask, n) ==
    LET total == TotalWeight(weights, mask, n)
        wlnw == SumOver([b \in Bits(n) |->
                           IF WeightOf(weights, b) > 0
                           THEN WeightOf(weights, b) * LnScaled[WeightOf(weights, b)]
                           ELSE 0],
                        mask \cap Bits(n))
    IN LnScaled[total] - (wlnw \div total)

\* rng_next_double() * 0.001 in units of 1/10000, for the draw k / RngDen.
NoiseScaled(k) == (k * 10) \div RngDen

\* calculate_entropy on the given mask; k is the draw it consumes when it
\* reaches the noise line.
calculate_entropy(weights, mask, n, k) ==
    IF popcount_u8(mask) <= 1 THEN 0
    ELSE IF TotalWeight(weights, mask, n) = 0 THEN 0
    ELSE ShannonScaled(weights, mask, n) + NoiseScaled(k)

heap_less(a, b) ==
    IF a.entropy < b.entropy THEN TRUE
    ELSE IF a.entropy > b.entropy THEN FALSE
    ELSE a.counter < b.counter

SwapSlots(data, i, j) ==
    [data EXCEPT ![i + 1] = data[j + 1], ![j + 1] = data[i + 1]]

RECURSIVE WfcSiftUp(_, _)
WfcSiftUp(data, i) ==
    IF i = 0 THEN data
    ELSE LET parent == (i - 1) \div 2
         IN IF ~heap_less(data[i + 1], data[parent + 1]) THEN data
            ELSE WfcSiftUp(SwapSlots(data, i, parent), parent)

heap_push(data, entry) == WfcSiftUp(Append(data, entry), Len(data))

RECURSIVE WfcSiftDown(_, _)
WfcSiftDown(data, i) ==
    LET size == Len(data)
        left == 2 * i + 1
        right == left + 1
        s1 == IF left < size /\ heap_less(data[left + 1], data[i + 1])
              THEN left ELSE i
        smallest == IF right < size /\ heap_less(data[right + 1], data[s1 + 1])
                    THEN right ELSE s1
    IN IF smallest = i THEN data
       ELSE WfcSiftDown(SwapSlots(data, i, smallest), smallest)

\* The heap data after heap_pop (the popped entry is data[1]).
heap_pop(data) ==
    LET size == Len(data) - 1
    IN IF size > 0
       THEN WfcSiftDown([SubSeq(data, 1, size) EXCEPT ![1] = data[size + 1]], 0)
       ELSE <<>>

HeapEntry(e, c, i) == [entropy |-> e, counter |-> c, idx |-> i]

\* ------------------------------------------------------------------------
\* WFC: weighted choice, propagation helpers, result
\* ------------------------------------------------------------------------
\* The set bits of mask below n in increasing order (bits[0 .. count-1]).
RECURSIVE SortedBits(_)
SortedBits(S) ==
    IF S = {} THEN <<>>
    ELSE LET m == CHOOSE x \in S : \A y \in S : x <= y
         IN <<m>> \o SortedBits(S \ {m})

RECURSIVE FirstCumulative(_, _, _, _, _)
\* The first i (1-based) with r <= cumulative, where r = k * total / RngDen;
\* 0 when the loop falls through.
FirstCumulative(ws, i, cumulative, k, total) ==
    IF i > Len(ws) THEN 0
    ELSE IF k * total <= (cumulative + ws[i]) * RngDen THEN i
    ELSE FirstCumulative(ws, i + 1, cumulative + ws[i], k, total)

\* weighted_choice: the chosen bit, or -1.
weighted_choice(weights, mask, n, k) ==
    LET bits == SortedBits(mask \cap Bits(n))
        count == Len(bits)
        ws == [i \in 1 .. count |-> WeightOf(weights, bits[i])]
        total == TotalWeight(weights, mask, n)
    IN IF mask = {} THEN -1
       ELSE IF count = 0 THEN -1
       ELSE IF total = 0
            THEN LET pick == (k * count) \div RngDen
                 IN bits[(IF pick >= count THEN count - 1 ELSE pick) + 1]
       ELSE LET i == FirstCumulative(ws, 1, 0, k, total)
            IN IF i = 0 THEN bits[count] ELSE bits[i]

DIR_DX == <<0, 1, 0, -1>>
DIR_DY == <<-1, 0, 1, 0>>

wave_index(h, x, y) == x * h + y

\* The table entry propagate looks up for a source mask in direction dir.
ValidForNeighborWrongDir(table, dir, mask) == table[(dir + 1) % 4][mask]
ValidForNeighbor(table, dir, mask) == table[dir][mask]

\* new_mask = neighbor_mask & valid_for_neighbor
NewMaskNoAnd(neighbor_mask, valid) == valid
NewMask(neighbor_mask, valid) == neighbor_mask \cap valid

\* The counter of uncollapsed cells after propagate wrote a shrunk mask of
\* new_count bits.
AfterShrinkUncounted(uncollapsed, new_count) == uncollapsed
AfterShrink(uncollapsed, new_count) ==
    IF new_count > 1 THEN uncollapsed ELSE uncollapsed - 1

\* The initialization scan pushes and counts a cell of count candidates.
ScanKeepsAboveTwo(count) == count > 2
ScanKeeps(count) == count > 1

\* The outer loop's iteration cap.
MaxOuterIterationsSize(size) == size
MaxOuterIterations(size) == size * 2

\* The per-propagate iteration cap.
MaxPropIterationsSize(size) == size
MaxPropIterations(size) == size * 10

\* single_bit_index: lowest set bit below n, or -1.
single_bit_index_one_based(mask, n) ==
    IF mask \cap Bits(n) = {} THEN -1
    ELSE 1 + CHOOSE b \in mask \cap Bits(n) : \A c \in mask \cap Bits(n) : b <= c
single_bit_index(mask, n) ==
    IF mask \cap Bits(n) = {} THEN -1
    ELSE CHOOSE b \in mask \cap Bits(n) : \A c \in mask \cap Bits(n) : b <= c

\* solver.wave: the buffer the solve reads and writes.
SolverWaveAliased == "initial_wave"
SolverWave == "wave_copy"

Wave == IF SolverWave = "wave_copy" THEN wave_copy ELSE initial_wave

WriteWave(w) ==
    IF SolverWave = "wave_copy"
    THEN wave_copy' = w /\ UNCHANGED initial_wave
    ELSE initial_wave' = w /\ UNCHANGED wave_copy

\* ------------------------------------------------------------------------
\* WFC: the inputs the model draws
\* ------------------------------------------------------------------------
\* Adjacency rules a host may compile into one direction of the table.
Rules == {"all", "none", "other"}

\* propagation_masks[dir][mask] for one rule: the union over the source bits.
RuleMask(rule, mask, n) ==
    CASE rule = "all" -> IF mask = {} THEN {} ELSE Bits(n)
      [] rule = "none" -> {}
      [] rule = "other" -> UNION {Bits(n) \ {b} : b \in mask}

\* rules[dir + 1] is the rule of direction dir (N=0, E=1, S=2, W=3).
TableOf(rules, n) ==
    [dir \in 0 .. 3 |-> [mask \in SUBSET Bits(n) |-> RuleMask(rules[dir + 1], mask, n)]]

Cells(shape) == 0 .. (shape[1] * shape[2] - 1)

\* The kernels that are not running: their variables hold no call.
FovBuffers == {"stack"}

FovIdle ==
    /\ transparent = <<>> /\ visible = <<>>
    /\ ox = 0 /\ oy = 0 /\ radius = 0
    /\ quadrant = 0 /\ sectors = <<>>
    /\ sector_capacity = 0 /\ fov_mem = NoBuffers(FovBuffers)
    /\ fov_pc = "idle" /\ fov_rc = 0

\* The six working arrays of astar_search, in the order they are freed.
SearchBuffers == <<"g_score", "came_from", "closed", "heap_pos", "goal_dx", "goal_dy">>

AstarBuffers == {"path_buf", "heap"} \cup {SearchBuffers[i] : i \in 1 .. 6}

AstarIdle ==
    /\ cost = <<>> /\ cost_w = 0 /\ cost_h = 0
    /\ sx = 0 /\ sy = 0 /\ gx = 0 /\ gy = 0
    /\ g_score = <<>> /\ came_from = <<>> /\ closed = <<>>
    /\ heap_pos = <<>> /\ open = <<>>
    /\ ci = 0 /\ dir_d = 0 /\ found = 0 /\ path = <<>>
    /\ open_capacity = 0 /\ astar_mem = NoBuffers(AstarBuffers)
    /\ astar_pc = "idle" /\ astar_rc = "none"

\* No call of wfc_solve is running.
WfcNoCall ==
    /\ num_patterns = 0 /\ propagation_shape = <<>> /\ propagation_masks = <<>>
    /\ pattern_weights = <<>> /\ wave_shape = <<>>
    /\ initial_wave = <<>> /\ wave_before = <<>> /\ wave_copy = <<>>
    /\ heap = <<>> /\ heap_counter = 0 /\ stack = <<>> /\ in_stack = <<>>
    /\ uncollapsed_cells = 0 /\ iterations = 0
    /\ prop_iterations = 0 /\ prop_idx = 0 /\ prop_mask = {} /\ prop_dir = 0
    /\ scan_idx = 0 /\ cell_idx = 0 /\ allocated = {}
    /\ wfc_mem = NoBuffers(WfcBuffers) /\ heap_capacity = 0 /\ stack_capacity = 0
    /\ wfc_pc = "idle" /\ outcome = "none" /\ result = <<>>

WfcCall(cw, ch, n, pshape, table, weights, wshape, wave) ==
    /\ FovIdle /\ AstarIdle
    /\ width = cw /\ height = ch /\ num_patterns = n
    /\ propagation_shape = pshape
    /\ propagation_masks = table
    /\ pattern_weights = weights
    /\ wave_shape = wshape
    /\ initial_wave = wave
    /\ wave_before = wave
    /\ wave_copy = <<>>
    /\ heap = <<>> /\ heap_counter = 0
    /\ stack = <<>> /\ in_stack = <<>>
    /\ uncollapsed_cells = 0 /\ iterations = 0
    /\ prop_iterations = 0 /\ prop_idx = 0 /\ prop_mask = {} /\ prop_dir = 0
    /\ scan_idx = 0 /\ cell_idx = 0
    /\ allocated = {}
    /\ wfc_mem = NoBuffers(WfcBuffers) /\ heap_capacity = 0 /\ stack_capacity = 0
    /\ wfc_pc = "call" /\ outcome = "none" /\ result = <<>>
    /\ StaticsAtLoad /\ ThreadsIdle /\ NoEarlierCall

\* Two adjacent cells (2x1 or 1x2), every wave over the patterns, every
\* pair of rules along the axis that has neighbours.
InitPairs ==
    \E shape \in {<<2, 1>>, <<1, 2>>}, n \in 2 .. MaxPatterns :
    \E r1 \in Rules, r2 \in Rules :
    \E weights \in [1 .. n -> WeightValues] :
    \E wave \in [Cells(shape) -> SUBSET Bits(n)] :
        /\ n > 2 => (\A b \in 1 .. n : weights[b] = weights[1])
        /\ WfcCall(shape[1], shape[2], n, <<4, 256>>,
                   TableOf(IF shape[2] = 1 THEN <<"all", r1, "all", r2>>
                           ELSE <<r1, "all", r2, "all">>, n),
                   weights, shape, wave)

\* The 2x1 scenario: two patterns, both cells 0b11, every table of rules.
InitTwoByOne ==
    \E rules \in [1 .. 4 -> Rules] :
    \E weights \in [1 .. 2 -> WeightValues] :
        WfcCall(2, 1, 2, <<4, 256>>, TableOf(rules, 2), weights, <<2, 1>>,
                [c \in Cells(<<2, 1>>) |-> Bits(2)])

\* Maximally ambiguous waves under a table that allows every transition.
InitAmbiguous ==
    \E w \in 1 .. MaxWidth, h \in 1 .. MaxHeight, n \in 1 .. MaxPatterns :
    \E weights \in [1 .. n -> WeightValues] :
        /\ w * h <= MaxCells
        /\ w * h > 2 => (\A b \in 1 .. n : weights[b] = weights[1])
        /\ WfcCall(w, h, n, <<4, 256>>, TableOf(<<"all", "all", "all", "all">>, n),
                   weights, <<w, h>>, [c \in Cells(<<w, h>>) |-> Bits(n)])

\* Calls the validation rejects: bad dimensions, bad num_patterns, buffers of
\* the wrong shape, and waves with bits at or above num_patterns.
InitRejected ==
    \E w \in 0 .. 2, n \in {0, 2, 9}, pcols \in {255, 256}, wlen \in {1, 2} :
    \E wshape \in {<<2, 1>>, <<1, 2>>} :
    \E wave \in [Cells(wshape) -> {{0, 1}, {0, 2}, {2}}] :
        /\ ~(w = 2 /\ n = 2 /\ pcols = 256 /\ wlen = 2 /\ wshape = <<2, 1>>
             /\ \A c \in Cells(wshape) : wave[c] \subseteq Bits(2))
        /\ WfcCall(w, 1, n, <<4, pcols>>,
                   TableOf(<<"all", "all", "all", "all">>, 2),
                   [b \in 1 .. wlen |-> 1], wshape, wave)

\* A row of three cells with three equally weighted patterns, maximally
\* ambiguous, under the rule that neighbours differ: the collapse of the
\* middle cell narrows both neighbours, which re-enter the heap beside their
\* stale entries.
InitCascade ==
    WfcCall(3, 1, 3, <<4, 256>>,
            TableOf(<<"other", "other", "other", "other">>, 3),
            [b \in 1 .. 3 |-> 1], <<3, 1>>,
            [c \in Cells(<<3, 1>>) |-> Bits(3)])

InitWfc ==
    /\ InitPairs \/ InitTwoByOne \/ InitAmbiguous \/ InitRejected \/ InitCascade
    /\ call_no = 0

\* ------------------------------------------------------------------------
\* WFC: the call, step by step
\* ------------------------------------------------------------------------
Size == width * height

\* The draws rng_next_double can return next. The seed fixes the whole
\* stream (rng_init sets every word of the state from it), so the repeated
\* call meets the draws of the first call again, in order; past them the
\* stream goes on with values the first call never saw.
NextDraws ==
    IF call_no = 2 /\ Len(rng_trace) < Len(replay)
    THEN {replay[Len(rng_trace) + 1]}
    ELSE 0 .. (RngDen - 1)

\* The record of the draws after a step that drew k, or did not draw. A
\* single call (call_no = 0) keeps no record.
Recorded(drew, k) ==
    IF drew /\ call_no # 0 THEN Append(rng_trace, k) ELSE rng_trace

\* calculate_entropy reaches its noise line, and draws.
EntropyDraws(mask) ==
    popcount_u8(mask) > 1 /\ TotalWeight(pattern_weights, mask, num_patterns) # 0

\* weighted_choice reaches its draw: the mask has a bit below num_patterns.
ChoiceDraws(mask) == mask \cap Bits(num_patterns) # {}

\* Leave the call: set the error (or "grid"), run the cleanup block.
WfcFinishFrom(o, mem) ==
    /\ wfc_pc' = "done"
    /\ outcome' = o
    /\ allocated' = {}
    /\ wfc_mem' = WfcCleanup(mem)

WfcFinish(o) == WfcFinishFrom(o, wfc_mem)

\* Argument and buffer checks, before any allocation.
WfcValidate ==
    /\ wfc_pc = "call"
    /\ IF width <= 0 \/ height <= 0 THEN WfcFinish("BadValue")
       ELSE IF num_patterns <= 0 \/ num_patterns > 8 THEN WfcFinish("BadValue")
       ELSE IF propagation_shape # <<4, 256>> THEN WfcFinish("BadShape")
       ELSE IF Len(pattern_weights) # num_patterns THEN WfcFinish("BadShape")
       ELSE IF wave_shape # <<width, height>> THEN WfcFinish("BadShape")
       ELSE wfc_pc' = "copy" /\ UNCHANGED <<outcome, allocated, wfc_mem>>
    /\ UNCHANGED <<wfcInputs, initial_wave, wave_copy, wfcSolver, result>>
    /\ UNCHANGED <<heap_capacity, stack_capacity>>
    /\ UNCHANGED <<fovVars, astarVars, wfcReplay, popThreads, wfcStatics, rng_trace>>

\* malloc + memcpy of the private wave, then the check for stray bits.
WfcCopyWave ==
    /\ wfc_pc = "copy"
    /\ \E malloc_ok \in BOOLEAN :
         IF ~malloc_ok
         THEN WfcFinish("OutOfMemory") /\ UNCHANGED wave_copy
         ELSE /\ wave_copy' = [i \in 0 .. (Size - 1) |-> initial_wave[i]]
              /\ IF \E i \in 0 .. (Size - 1) : ~(initial_wave[i] \subseteq Bits(num_patterns))
                 THEN WfcFinishFrom("BadValue", Allocate(wfc_mem, "wave_copy"))
                 ELSE /\ wfc_pc' = "alloc"
                      /\ allocated' = {"wave_copy"}
                      /\ wfc_mem' = Allocate(wfc_mem, "wave_copy")
                      /\ UNCHANGED outcome
    /\ UNCHANGED <<wfcInputs, initial_wave, wfcSolver, result>>
    /\ UNCHANGED <<heap_capacity, stack_capacity>>
    /\ UNCHANGED <<fovVars, astarVars, wfcReplay, popThreads, wfcStatics, rng_trace>>

\* heap_init, stack_init, calloc(in_stack), then the solver struct.
WfcAllocate ==
    /\ wfc_pc = "alloc"
    /\ \E failing \in {"none", "heap", "stack", "in_stack"} :
         IF failing # "none"
         THEN /\ WfcFinishFrom("OutOfMemory",
                    IF failing = "heap" THEN wfc_mem
                    ELSE IF failing = "stack" THEN Allocate(wfc_mem, "heap")
                    ELSE Allocate(Allocate(wfc_mem, "heap"), "stack"))
              /\ UNCHANGED <<in_stack, heap_capacity, stack_capacity, wfcStatics>>
         ELSE /\ allocated' = allocated \cup {"heap", "stack", "in_stack"}
              /\ wfc_mem' = Allocate(Allocate(Allocate(wfc_mem, "heap"), "stack"), "in_stack")
              /\ heap_capacity' = IF Size < MinCapacity THEN MinCapacity ELSE Size
              /\ stack_capacity' = IF Size < MinCapacity THEN MinCapacity ELSE Size
              /\ in_stack' = [i \in 0 .. (Size - 1) |-> 0]
              /\ POPCOUNT_TABLE' = ensure_popcount_table(POPCOUNT_READY, POPCOUNT_TABLE)
              /\ POPCOUNT_READY' = 1
              /\ wfc_pc' = "scan"
              /\ UNCHANGED outcome
    /\ heap' = <<>> /\ heap_counter' = 0 /\ stack' = <<>>
    /\ scan_idx' = 0 /\ uncollapsed_cells' = 0
    /\ UNCHANGED <<wfcInputs, initial_wave, wave_copy, iterations, prop_iterations,
                   prop_idx, prop_mask, prop_dir, cell_idx, result>>
    /\ UNCHANGED <<fovVars, astarVars, wfcReplay, popThreads, rng_trace>>

\* One round of the initialization scan of wfc_solve_inner.
WfcScan ==
    /\ wfc_pc = "scan"
    /\ LET count == popcount_u8(Wave[scan_idx])
       IN IF count = 0
          THEN /\ WfcFinish("Contradiction")
               /\ UNCHANGED <<heap, heap_counter, uncollapsed_cells, scan_idx, iterations>>
               /\ UNCHANGED <<heap_capacity, rng_trace>>
          ELSE IF ScanKeeps(count)
          THEN \E k \in NextDraws :
               \E realloc_ok \in ReallocOutcomes(Len(heap), heap_capacity) :
                 /\ rng_trace' = Recorded(EntropyDraws(Wave[scan_idx]), k)
                 /\ heap_counter' = heap_counter + 1
                 /\ iterations' = 0
                 /\ IF ~realloc_ok
                    THEN /\ WfcFinish("OutOfMemory")
                         /\ UNCHANGED <<heap, heap_capacity, uncollapsed_cells, scan_idx>>
                    ELSE /\ heap' = heap_push(heap,
                                HeapEntry(calculate_entropy(pattern_weights, Wave[scan_idx],
                                                            num_patterns, k),
                                          heap_counter, scan_idx))
                         /\ heap_capacity' = Doubled(Len(heap), heap_capacity)
                         /\ uncollapsed_cells' = uncollapsed_cells + 1
                         /\ scan_idx' = scan_idx + 1
                         /\ wfc_pc' = IF scan_idx + 1 < Size THEN "scan" ELSE "outer"
                         /\ UNCHANGED <<outcome, allocated, wfc_mem>>
          ELSE /\ UNCHANGED <<heap, heap_counter, uncollapsed_cells, heap_capacity>>
               /\ scan_idx' = scan_idx + 1
               /\ wfc_pc' = IF scan_idx + 1 < Size THEN "scan" ELSE "outer"
               /\ iterations' = 0
               /\ UNCHANGED <<outcome, allocated, wfc_mem, rng_trace>>
    /\ UNCHANGED <<wfcInputs, initial_wave, wave_copy, stack, in_stack, prop_iterations,
                   prop_idx, prop_mask, prop_dir, cell_idx, result, stack_capacity>>
    /\ UNCHANGED <<fovVars, astarVars, wfcReplay, popThreads, wfcStatics>>

\* The head of the outer loop: its condition and its iteration cap.
WfcOuter ==
    /\ wfc_pc = "outer"
    /\ IF uncollapsed_cells > 0
       THEN /\ iterations' = iterations + 1
            /\ IF iterations + 1 >= MaxOuterIterations(Size)
               THEN WfcFinish("Contradiction")
               ELSE wfc_pc' = "find" /\ UNCHANGED <<outcome, allocated, wfc_mem>>
       ELSE /\ wfc_pc' = "final"
            /\ UNCHANGED <<iterations, outcome, allocated, wfc_mem>>
    /\ UNCHANGED <<wfcInputs, initial_wave, wave_copy, heap, heap_counter, stack, in_stack,
                   uncollapsed_cells, prop_iterations, prop_idx, prop_mask, prop_dir,
                   scan_idx, cell_idx, result, heap_capacity, stack_capacity>>
    /\ UNCHANGED <<fovVars, astarVars, wfcReplay, popThreads, wfcStatics, rng_trace>>

\* One round of the loop of find_min_entropy_cell.
WfcFindMin ==
    /\ wfc_pc = "find"
    /\ IF Len(heap) = 0
       THEN /\ wfc_pc' = "final"     \* rc == 1: break
            /\ UNCHANGED <<heap, heap_counter, cell_idx, outcome, allocated, wfc_mem>>
            /\ UNCHANGED rng_trace
       ELSE LET entry == heap[1]
                popped == heap_pop(heap)
                mask == Wave[entry.idx]
                count == popcount_u8(mask)
            IN IF count = 0
               THEN /\ heap' = popped
                    /\ WfcFinish("Contradiction")
                    /\ UNCHANGED <<heap_counter, cell_idx, rng_trace>>
               ELSE IF count = 1
               THEN /\ heap' = popped
                    /\ UNCHANGED <<heap_counter, cell_idx, wfc_pc, outcome, allocated, wfc_mem>>
                    /\ UNCHANGED rng_trace
               ELSE \E k \in NextDraws :
                      LET current == calculate_entropy(pattern_weights, mask, num_patterns, k)
                          diff == IF current >= entry.entropy THEN current - entry.entropy
                                  ELSE entry.entropy - current
                      IN /\ rng_trace' = Recorded(EntropyDraws(mask), k)
                         /\ IF diff > 100
                            THEN /\ heap' = heap_push(popped,
                                              HeapEntry(current, heap_counter, entry.idx))
                                 /\ heap_counter' = heap_counter + 1
                                 /\ UNCHANGED <<cell_idx, wfc_pc, outcome, allocated, wfc_mem>>
                            ELSE /\ heap' = popped
                                 /\ cell_idx' = entry.idx
                                 /\ wfc_pc' = "collapse"
                                 /\ UNCHANGED <<heap_counter, outcome, allocated, wfc_mem>>
    /\ UNCHANGED <<wfcInputs, initial_wave, wave_copy, stack, in_stack, uncollapsed_cells,
                   iterations, prop_iterations, prop_idx, prop_mask, prop_dir, scan_idx,
                   result, heap_capacity, stack_capacity>>
    /\ UNCHANGED <<fovVars, astarVars, wfcReplay, popThreads, wfcStatics>>

\* weighted_choice, the collapse of the chosen cell, and the entry of propagate.
WfcCollapse ==
    /\ wfc_pc = "collapse"
    /\ \E k \in NextDraws :
         LET chosen_bit == weighted_choice(pattern_weights, Wave[cell_idx], num_patterns, k)
         IN /\ rng_trace' = Recorded(ChoiceDraws(Wave[cell_idx]), k)
            /\ IF chosen_bit < 0
               THEN /\ WfcFinish("Contradiction")
                    /\ UNCHANGED <<initial_wave, wave_copy, uncollapsed_cells, stack,
                                   in_stack, prop_iterations>>
               ELSE /\ WriteWave([Wave EXCEPT ![cell_idx] = {chosen_bit}])
                    /\ uncollapsed_cells' = uncollapsed_cells - 1
                    /\ stack' = Append(stack, cell_idx)
                    /\ in_stack' = [in_stack EXCEPT ![cell_idx] = 1]
                    /\ prop_iterations' = 0
                    /\ wfc_pc' = "propagate"
                    /\ UNCHANGED <<outcome, allocated, wfc_mem>>
    /\ UNCHANGED <<wfcInputs, heap, heap_counter, iterations, prop_idx, prop_mask, prop_dir,
                   scan_idx, cell_idx, result, heap_capacity, stack_capacity>>
    /\ UNCHANGED <<fovVars, astarVars, wfcReplay, popThreads, wfcStatics>>

\* The head of the loop of propagate: cap, pop, read of the popped mask.
WfcPropagatePop ==
    /\ wfc_pc = "propagate"
    /\ IF Len(stack) = 0
       THEN /\ wfc_pc' = "outer"     \* propagate returns 0
            /\ UNCHANGED <<stack, in_stack, prop_iterations, prop_idx, prop_mask, prop_dir,
                           outcome, allocated, wfc_mem>>
       ELSE /\ prop_iterations' = prop_iterations + 1
            /\ IF prop_iterations + 1 >= MaxPropIterations(Size)
               THEN /\ WfcFinish("Contradiction")
                    /\ UNCHANGED <<stack, in_stack, prop_idx, prop_mask, prop_dir>>
               ELSE LET idx == stack[Len(stack)]
                    IN /\ stack' = SubSeq(stack, 1, Len(stack) - 1)
                       /\ in_stack' = [in_stack EXCEPT ![idx] = 0]
                       /\ prop_idx' = idx
                       /\ prop_mask' = Wave[idx]
                       /\ prop_dir' = 0
                       /\ wfc_pc' = "direction"
                       /\ UNCHANGED <<outcome, allocated, wfc_mem>>
    /\ UNCHANGED <<wfcInputs, initial_wave, wave_copy, heap, heap_counter, uncollapsed_cells,
                   iterations, scan_idx, cell_idx, result, heap_capacity, stack_capacity>>
    /\ UNCHANGED <<fovVars, astarVars, wfcReplay, popThreads, wfcStatics, rng_trace>>

\* One round of the direction loop of propagate, for the popped cell.
WfcPropagateDir ==
    /\ wfc_pc = "direction"
    /\ LET nx == (prop_idx \div height) + DIR_DX[prop_dir + 1]
           ny == (prop_idx % height) + DIR_DY[prop_dir + 1]
           nidx == wave_index(height, nx, ny)
           next_pc == IF prop_dir < 3 THEN "direction" ELSE "propagate"
           skip == /\ wfc_pc' = next_pc
                   /\ UNCHANGED <<initial_wave, wave_copy, heap, heap_counter, stack,
                                  in_stack, uncollapsed_cells, outcome, allocated, wfc_mem,
                                  heap_capacity, stack_capacity, rng_trace>>
       IN IF nx < 0 \/ nx >= width \/ ny < 0 \/ ny >= height THEN skip
          ELSE IF popcount_u8(Wave[nidx]) <= 1 THEN skip
          ELSE LET neighbor_mask == Wave[nidx]
                   new_mask == NewMask(neighbor_mask,
                                       ValidForNeighbor(propagation_masks, prop_dir, prop_mask))
               IN IF new_mask = neighbor_mask THEN skip
                  ELSE IF new_mask = {}
                  THEN /\ WfcFinish("Contradiction")
                       /\ UNCHANGED <<initial_wave, wave_copy, heap, heap_counter, stack,
                                      in_stack, uncollapsed_cells, heap_capacity,
                                      stack_capacity, rng_trace>>
                  ELSE \E k \in NextDraws :
                       \E heap_ok \in IF popcount_u8(new_mask) > 1
                                      THEN ReallocOutcomes(Len(heap), heap_capacity)
                                      ELSE {TRUE} :
                       \E stack_ok \in IF in_stack[nidx] = 0
                                       THEN ReallocOutcomes(Len(stack), stack_capacity)
                                       ELSE {TRUE} :
                       /\ WriteWave([Wave EXCEPT ![nidx] = new_mask])
                       /\ rng_trace' = Recorded(EntropyDraws(new_mask), k)
                       /\ uncollapsed_cells' =
                              AfterShrink(uncollapsed_cells, popcount_u8(new_mask))
                       /\ IF popcount_u8(new_mask) > 1
                          THEN /\ heap_counter' = heap_counter + 1
                               /\ IF heap_ok
                                  THEN /\ heap' = heap_push(heap,
                                             HeapEntry(calculate_entropy(pattern_weights,
                                                           new_mask, num_patterns, k),
                                                       heap_counter, nidx))
                                       /\ heap_capacity' = Doubled(Len(heap), heap_capacity)
                                  ELSE UNCHANGED <<heap, heap_capacity>>
                          ELSE UNCHANGED <<heap, heap_counter, heap_capacity>>
                       /\ IF ~heap_ok
                          THEN /\ WfcFinish("OutOfMemory")
                               /\ UNCHANGED <<stack, in_stack, stack_capacity>>
                          ELSE IF in_stack[nidx] # 0
                          THEN /\ wfc_pc' = next_pc
                               /\ UNCHANGED <<stack, in_stack, stack_capacity, outcome,
                                              allocated, wfc_mem>>
                          ELSE /\ in_stack' = [in_stack EXCEPT ![nidx] = 1]
                               /\ IF stack_ok
                                  THEN /\ stack' = Append(stack, nidx)
                                       /\ stack_capacity' = Doubled(Len(stack), stack_capacity)
                                       /\ wfc_pc' = next_pc
                                       /\ UNCHANGED <<outcome, allocated, wfc_mem>>
                                  ELSE /\ WfcFinish("OutOfMemory")
                                       /\ UNCHANGED <<stack, stack_capacity>>
    /\ prop_dir' = prop_dir + 1
    /\ UNCHANGED <<wfcInputs, iterations, prop_iterations, prop_idx, prop_mask, scan_idx,
                   cell_idx, result>>
    /\ UNCHANGED <<fovVars, astarVars, wfcReplay, popThreads, wfcStatics>>

\* The final all-collapsed check, the construction of the result, cleanup.
WfcFinal ==
    /\ wfc_pc = "final"
    /\ IF \E i \in 0 .. (Size - 1) : popcount_u8(Wave[i]) # 1
       THEN WfcFinish("Contradiction") /\ UNCHANGED result
       ELSE IF \E i \in 0 .. (Size - 1) :
                   \/ single_bit_index(Wave[i], num_patterns) < 0
                   \/ popcount_u8(Wave[i]) # 1
       THEN WfcFinish("SystemError") /\ UNCHANGED result
       ELSE /\ WfcFinish("grid")
            /\ result' = [i \in 0 .. (Size - 1) |-> single_bit_index(Wave[i], num_patterns)]
    /\ UNCHANGED <<wfcInputs, initial_wave, wave_copy, wfcSolver, heap_capacity,
                   stack_capacity>>
    /\ UNCHANGED <<fovVars, astarVars, wfcReplay, popThreads, wfcStatics, rng_trace>>

NextWfc ==
    \/ WfcValidate
    \/ WfcCopyWave
    \/ WfcAllocate
    \/ WfcScan
    \/ WfcOuter
    \/ WfcFindMin
    \/ WfcCollapse
    \/ WfcPropagatePop
    \/ WfcPropagateDir
    \/ WfcFinal

SpecWfc == InitWfc /\ [][NextWfc]_wfcVars

\* ------------------------------------------------------------------------
\* WFC: the same call made twice
\* ------------------------------------------------------------------------
\* The host calls wfc_solve again with the arguments of the call that has
\* returned, seed included. The locals of the new call start as the code
\* declares them (NULL pointers, zeroed heap and stack); the solver struct
\* is set field by field before it is read, so what it held is of no
\* account; the statics keep what the first call left in them.
WfcCallAgain ==
    /\ wfc_pc = "done" /\ call_no = 1
    /\ call_no' = 2
    /\ first_outcome' = outcome /\ first_result' = result
    /\ replay' = rng_trace /\ rng_trace' = <<>>
    /\ initial_wave' = wave_before
    /\ wave_copy' = <<>>
    /\ wfc_mem' = NoBuffers(WfcBuffers) /\ heap_capacity' = 0 /\ stack_capacity' = 0
    /\ wfc_pc' = "call" /\ outcome' = "none" /\ result' = <<>>
    /\ UNCHANGED <<wfcInputs, wfcSolver, allocated, wfcStatics, popThreads>>
    /\ UNCHANGED <<fovVars, astarVars>>

\* The calls that are repeated: the 2x1 scenario under one rule for all four
\* directions, and the calls the validation rejects.
InitRepeated ==
    \E rule \in Rules :
    \E weights \in [1 .. 2 -> WeightValues] :
        WfcCall(2, 1, 2, <<4, 256>>, TableOf(<<rule, rule, rule, rule>>, 2), weights,
                <<2, 1>>, [c \in Cells(<<2, 1>>) |-> Bits(2)])

InitWfcTwice ==
    /\ InitRepeated \/ InitRejected
    /\ call_no = 1

NextWfcTwice == NextWfc \/ WfcCallAgain

SpecWfcTwice == InitWfcTwice /\ [][NextWfcTwice]_<<wfcVars, fovVars, astarVars>>

\* ------------------------------------------------------------------------
\* WFC: tables no rule set compiles to
\* ------------------------------------------------------------------------
\* Entries that are not the union of the entries of the source bits: the
\* complement of the source mask, its bits rotated by one, its lowest bit.
MalformedEntries == {"complement", "rotate", "lowest"}

MalformedMask(kind, mask, n) ==
    CASE kind = "complement" -> Bits(n) \ mask
      [] kind = "rotate" -> {(b + 1) % n : b \in mask}
      [] kind = "lowest" -> {b \in mask : \A c \in mask : b <= c}

\* Every entry of every direction of the 2x1 table chosen freely.
InitFreeTable ==
    \E f \in [SUBSET Bits(2) -> SUBSET Bits(2)] :
        WfcCall(2, 1, 2, <<4, 256>>, [dir \in 0 .. 3 |-> f], [b \in 1 .. 2 |-> 1],
                <<2, 1>>, [c \in Cells(<<2, 1>>) |-> Bits(2)])

\* Three cells in a row, three patterns, a malformed entry kind per axis
\* direction.
InitMalformed ==
    \E east \in MalformedEntries, west \in MalformedEntries :
        WfcCall(3, 1, 3, <<4, 256>>,
                [dir \in 0 .. 3 |-> [mask \in SUBSET Bits(3) |->
                    MalformedMask(IF dir = 1 THEN east ELSE west, mask, 3)]],
                [b \in 1 .. 3 |-> 1], <<3, 1>>,
                [c \in Cells(<<3, 1>>) |-> Bits(3)])

InitWfcTables ==
    /\ InitFreeTable \/ InitMalformed \/ InitCascade
    /\ call_no = 0

SpecWfcTables == InitWfcTables /\ [][NextWfc]_<<wfcVars, fovVars, astarVars>>

\* ------------------------------------------------------------------------
\* WFC: threads that reach ensure_popcount_table together
\* ------------------------------------------------------------------------
\* Each thread is a solver call at ensure_popcount_table, followed by one
\* popcount_u8 of the call. The function takes no lock and the statics are
\* plain (not atomic, not volatile), so two threads inside it race: the
\* language orders the store of the flag after the stores of the entries
\* for the storing thread only, and the other threads may see the flag
\* first.
InitPopcount ==
    /\ width = 0 /\ height = 0
    /\ WfcNoCall /\ FovIdle /\ AstarIdle
    /\ StaticsAtLoad /\ NoEarlierCall /\ call_no = 0
    /\ th_pc = [t \in Threads |-> "call"]
    /\ th_i = [t \in Threads |-> 0]
    /\ th_lookup = [t \in Threads |-> <<>>]

popBystanders == <<wfcCall, rng_trace, wfcReplay, fovVars, astarVars>>

\* if (POPCOUNT_READY) return;
PopEnter(t) ==
    /\ th_pc[t] = "call"
    /\ th_pc' = [th_pc EXCEPT ![t] = IF POPCOUNT_READY = 1 THEN "lookup" ELSE "fill"]
    /\ th_i' = [th_i EXCEPT ![t] = 0]
    /\ UNCHANGED <<wfcStatics, th_lookup, popBystanders>>

\* One round of the loop: POPCOUNT_TABLE[i] = c.
PopStore(t) ==
    /\ th_pc[t] = "fill"
    /\ POPCOUNT_TABLE' = [POPCOUNT_TABLE EXCEPT ![MaskOf(th_i[t])] = BitCount(MaskOf(th_i[t]))]
    /\ th_i' = [th_i EXCEPT ![t] = @ + 1]
    /\ th_pc' = [th_pc EXCEPT ![t] = IF th_i[t] + 1 < 2^TableBits THEN "fill" ELSE "publish"]
    /\ UNCHANGED <<POPCOUNT_READY, th_lookup, popBystanders>>

\* POPCOUNT_READY = 1, seen by the others after every store of the loop.
PopPublish(t) ==
    /\ th_pc[t] = "publish"
    /\ POPCOUNT_READY' = 1
    /\ th_pc' = [th_pc EXCEPT ![t] = "lookup"]
    /\ UNCHANGED <<POPCOUNT_TABLE, th_i, th_lookup, popBystanders>>

\* POPCOUNT_READY = 1, seen by the others while stores of the loop are
\* still to come (the store sunk into or hoisted above the loop, or
\* drained first by the hardware).
PopPublishEarly(t) ==
    /\ th_pc[t] = "fill"
    /\ POPCOUNT_READY = 0
    /\ POPCOUNT_READY' = 1
    /\ UNCHANGED <<POPCOUNT_TABLE, popThreads, popBystanders>>

\* popcount_u8(m) of the call, after its own ensure_popcount_table.
PopLookup(t) ==
    /\ th_pc[t] = "lookup"
    /\ \E m \in Masks : th_lookup' = [th_lookup EXCEPT ![t] = <<m, popcount_u8(m)>>]
    /\ th_pc' = [th_pc EXCEPT ![t] = "done"]
    /\ UNCHANGED <<wfcStatics, th_i, popBystanders>>

NextPopcount ==
    \E t \in Threads :
        \/ PopEnter(t)
        \/ PopStore(t)
        \/ PopPublish(t)
        \/ PopPublishEarly(t)
        \/ PopLookup(t)

SpecPopcount == InitPopcount /\ [][NextPopcount]_<<wfcVars, fovVars, astarVars>>

\* The same threads when every store becomes visible in program order.
NextPopcountInOrder ==
    \E t \in Threads : PopEnter(t) \/ PopStore(t) \/ PopPublish(t) \/ PopLookup(t)

SpecPopcountInOrder == InitPopcount /\ [][NextPopcountInOrder]_<<wfcVars, fovVars, astarVars>>

\* ------------------------------------------------------------------------
\* WFC: properties
\* ------------------------------------------------------------------------
\* The call passed every validation check (shapes, ranges, no stray bits).
WfcInputsValid ==
    /\ width > 0 /\ height > 0
    /\ num_patterns >= 1 /\ num_patterns <= 8
    /\ propagation_shape = <<4, 256>>
    /\ Len(pattern_weights) = num_patterns
    /\ wave_shape = <<width, height>>
    /\ \A i \in 0 .. (Size - 1) : wave_before[i] \subseteq Bits(num_patterns)

\* The in-bounds neighbour of cell idx in direction dir, or -1.
NeighbourOf(idx, dir) ==
    LET nx == (idx \div height) + DIR_DX[dir + 1]
        ny == (idx % height) + DIR_DY[dir + 1]
    IN IF nx < 0 \/ nx >= width \/ ny < 0 \/ ny >= height THEN -1
       ELSE wave_index(height, nx, ny)

\* C1: whenever wfc_solve returns a grid, for every cell with pattern p and
\* every direction dir with an in-bounds neighbour of pattern q, bit q is
\* set in propagation_masks[dir][1 << p].
C1_AdjacentPatternsPermitted ==
    outcome = "grid" =>
        \A idx \in 0 .. (Size - 1), dir \in 0 .. 3 :
            NeighbourOf(idx, dir) # -1 =>
                result[NeighbourOf(idx, dir)] \in propagation_masks[dir][{result[idx]}]

\* The 2x1 scenario of C6: two patterns, both cells of the initial wave 0b11.
TwoByOneScenario ==
    /\ WfcInputsValid
    /\ width = 2 /\ height = 1 /\ num_patterns = 2
    /\ \A i \in 0 .. 1 : wave_before[i] = {0, 1}

\* The table forbids both adjacencies in direction dir.
ForbidsBoth(dir) ==
    \A mask \in (SUBSET Bits(num_patterns)) \ {{}} : propagation_masks[dir][mask] = {}

C7_GridOrError ==
    /\ outcome = "grid" =>
          /\ wfc_pc = "done"
          /\ DOMAIN result = 0 .. (Size - 1)
          /\ \A i \in 0 .. (Size - 1) :
                Cardinality(Wave[i]) = 1 /\ Wave[i] = {result[i]}
    /\ (wfc_pc = "done" /\ outcome # "grid") =>
          /\ outcome \in {"BadValue", "BadShape", "OutOfMemory", "Contradiction",
                          "SystemError"}
          /\ result = <<>>
    /\ wfc_pc # "done" => (outcome = "none" /\ result = <<>>)

C7_Witness ==
    /\ outcome = "grid"
    /\ Size >= 2
    /\ \A i \in 0 .. (Size - 1) : Cardinality(wave_before[i]) > 1

\* C8: while a solve runs and after it, every cell of the private wave is a
\* subset of the cell's initial mask and has no bit at or above num_patterns;
\* in a returned grid every pattern index is a bit of the cell's initial mask.
C8_WaveOnlyShrinks ==
    (WfcInputsValid /\ wave_copy # <<>>) =>
        /\ \A i \in 0 .. (Size - 1) :
              Wave[i] \subseteq wave_before[i] /\ Wave[i] \subseteq Bits(num_patterns)
        /\ outcome = "grid" => \A i \in 0 .. (Size - 1) : result[i] \in wave_before[i]

C8_Witness ==
    /\ WfcInputsValid /\ wave_copy # <<>>
    /\ wfc_pc = "direction"
    /\ \E i \in 0 .. (Size - 1) :
          Cardinality(Wave[i]) = 2 /\ Cardinality(wave_before[i]) = 3

\* C9: the caller's initial_wave buffer holds after the call, and at every
\* point of it, what it held when the call was made, on every exit path.
C9_CallerWaveUntouched == initial_wave = wave_before

C9_Witness ==
    /\ wfc_pc = "done" /\ outcome = "grid"
    /\ wave_copy # initial_wave
    /\ initial_wave = wave_before

\* Every cell of the initial wave has all num_patterns bits set.
MaximallyAmbiguous == \A i \in 0 .. (Size - 1) : wave_before[i] = Bits(num_patterns)

\* The table allows every transition.
AllowsAll ==
    \A dir \in 0 .. 3 : \A mask \in (SUBSET Bits(num_patterns)) \ {{}} :
        propagation_masks[dir][mask] = Bits(num_patterns)

\* C10: on a maximally ambiguous wave under a table that allows every
\* transition, a solve that is not cut short by an allocation failure returns
\* a grid, for every size, pattern count, weight vector and sequence of draws.
C10_AmbiguousSucceeds ==
    (/\ WfcInputsValid /\ MaximallyAmbiguous /\ AllowsAll
     /\ wfc_pc = "done" /\ outcome # "OutOfMemory")
        => outcome = "grid"

C10_Witness ==
    /\ WfcInputsValid /\ MaximallyAmbiguous /\ AllowsAll
    /\ Size = MaxCells /\ num_patterns = MaxPatterns
    /\ \A b \in 1 .. num_patterns : pattern_weights[b] = 0
    /\ wfc_pc = "done" /\ outcome = "grid"

\* ------------------------------------------------------------------------
\* FOV: bounds
\* ------------------------------------------------------------------------
FovWidth == 4
FovHeight == 4
MaxFovCells == 8
MaxRadius == 3
OpenSide == 5

\* The capacity scan_quadrant gives the sector stack of a radius <= 8: 32 in
\* the code, scaled to the grids of the model.
SectorCapacity == 1

\* Which realloc of a row fails: none (0) or the first (no row of the
\* grids of the model makes a second one).
ReallocFailures == {0, 1}

\* ------------------------------------------------------------------------
\* FOV: sector arithmetic
\* ------------------------------------------------------------------------
\* C's / and % on ints: the quotient truncates toward zero.
CQuot(num, den) ==
    LET q == (IF num < 0 THEN -num ELSE num) \div (IF den < 0 THEN -den ELSE den)
    IN IF (num < 0) # (den < 0) THEN -q ELSE q

CRem(num, den) == num - den * CQuot(num, den)

\* The quotient without the correction towards minus infinity.
floor_div_truncating(num, den) == CQuot(num, den)

floor_div(num, den) ==
    LET q == CQuot(num, den)
        r == CRem(num, den)
    IN IF r # 0 /\ ((r > 0) # (den > 0)) THEN q - 1 ELSE q

ceil_div(num, den) ==
    LET q == CQuot(num, den)
        r == CRem(num, den)
    IN IF r # 0 /\ ((r > 0) = (den > 0)) THEN q + 1 ELSE q

\* Rows are {cx, dx, cy, dy} for North, East, South, West.
QUADRANT_TRANSFORMS ==
    << <<1, 0, 0, -1>>, <<0, 1, 1, 0>>, <<1, 0, 0, 1>>, <<0, -1, 1, 0>> >>

in_bounds(x, y) == x >= 0 /\ x < width /\ y >= 0 /\ y < height

Sector(depth, s_num, s_den, e_num, e_den) ==
    [depth |-> depth, s_num |-> s_num, s_den |-> s_den, e_num |-> e_num, e_den |-> e_den]

\* Only the tiles outside the grid count as walls.
TileIsWallOnlyOutside(tile_in_bounds, wx, wy) == ~tile_in_bounds

\* is_wall: a tile outside the grid, or one whose transparent byte is 0.
TileIsWall(tile_in_bounds, wx, wy) ==
    IF tile_in_bounds THEN ~transparent[wx * height + wy] ELSE TRUE

\* The slope tests of a floor tile are strict.
TileLitStrictSlopes(tile_in_bounds, is_wall, col, sec) ==
    /\ tile_in_bounds
    /\ \/ is_wall
       \/ (col * sec.s_den > sec.depth * sec.s_num /\ col * sec.e_den < sec.depth * sec.e_num)

\* The tile is lit whatever its slopes are (the slope test is dropped).
TileLitAnySlope(tile_in_bounds, is_wall, col, sec) == tile_in_bounds

\* The condition under which scan_quadrant writes visible[wx, wy] = 1.
TileLit(tile_in_bounds, is_wall, col, sec) ==
    /\ tile_in_bounds
    /\ \/ is_wall
       \/ (col * sec.s_den >= sec.depth * sec.s_num /\ col * sec.e_den <= sec.depth * sec.e_num)

\* int capacity = radius > 8 ? radius * 4 : 32;
SectorStackCapacity(r) == IF r > 8 THEN r * 4 ELSE SectorCapacity

\* The sector stack of scan_quadrant: its entries, its capacity, the number
\* of reallocs made in the current row, and whether a realloc has failed.
SectorStack(data, capacity) ==
    [data |-> data, capacity |-> capacity, grows |-> 0, failed |-> FALSE]

\* stack_push: a full stack is doubled by realloc; if the realloc fails (the
\* fail_at-th realloc of the row does) the stack is freed and set to NULL.
stack_push(stk, sector, fail_at) ==
    IF Len(stk.data) >= stk.capacity
    THEN IF stk.grows + 1 = fail_at
         THEN [stk EXCEPT !.data = <<>>, !.failed = TRUE]
         ELSE [data |-> Append(stk.data, sector), capacity |-> stk.capacity * 2,
               grows |-> stk.grows + 1, failed |-> FALSE]
    ELSE [stk EXCEPT !.data = Append(stk.data, sector)]

\* The column loop of one sector, from col on, and the push that follows it.
\* q is the quadrant, (px, py) the origin, sec the sector with its current
\* start slope, prev the value of prev_was_wall; the result is the visible
\* buffer and the stack after the row, or at the push that failed.
RECURSIVE ScanColumns(_, _, _, _, _, _, _, _, _, _)
ScanColumns(q, px, py, sec, col, max_col, prev, vis, stk, fail_at) ==
    IF stk.failed THEN [vis |-> vis, stk |-> stk]
    ELSE IF col > max_col
    THEN [vis |-> vis,
          stk |-> IF prev = 0
                  THEN stack_push(stk, Sector(sec.depth + 1, sec.s_num, sec.s_den,
                                              sec.e_num, sec.e_den), fail_at)
                  ELSE stk]
    ELSE LET t == QUADRANT_TRANSFORMS[q + 1]
             wx == px + col * t[1] + sec.depth * t[2]
             wy == py + col * t[3] + sec.depth * t[4]
             tile_in_bounds == in_bounds(wx, wy)
             is_wall == TileIsWall(tile_in_bounds, wx, wy)
             vis2 == IF TileLit(tile_in_bounds, is_wall, col, sec)
                     THEN [vis EXCEPT ![wx * height + wy] = TRUE]
                     ELSE vis
             sec2 == IF prev = 1 /\ ~is_wall
                     THEN [sec EXCEPT !.s_num = 2 * col - 1, !.s_den = 2 * sec.depth]
                     ELSE sec
             stk2 == IF prev = 0 /\ is_wall
                     THEN stack_push(stk, Sector(sec.depth + 1, sec.s_num, sec.s_den,
                                                 2 * col - 1, 2 * sec.depth), fail_at)
                     ELSE stk
         IN ScanColumns(q, px, py, sec2, col + 1, max_col,
                        IF is_wall THEN 1 ELSE 0, vis2, stk2, fail_at)

\* Sectors are discarded one row too late.
BeyondRadiusLate(depth) == depth > radius + 1

\* if (depth > radius) continue;
BeyondRadius(depth) == depth > radius

\* One round of the while loop of scan_quadrant, for the popped sector.
ScanSector(q, px, py, sec, vis, stk, fail_at) ==
    IF BeyondRadius(sec.depth) THEN [vis |-> vis, stk |-> stk]
    ELSE LET min_col == floor_div(2 * sec.depth * sec.s_num + sec.s_den, 2 * sec.s_den)
             max_col == ceil_div(2 * sec.depth * sec.e_num - sec.e_den, 2 * sec.e_den)
         IN ScanColumns(q, px, py, sec, min_col, max_col, -1, vis, stk, fail_at)

\* scan_quadrant run to completion on the stack stk, no realloc failing.
RECURSIVE ScanStack(_, _, _, _, _)
ScanStack(q, px, py, vis, stk) ==
    IF Len(stk.data) = 0 THEN vis
    ELSE LET r == ScanSector(q, px, py, stk.data[Len(stk.data)], vis,
                             SectorStack(SubSeq(stk.data, 1, Len(stk.data) - 1),
                                         stk.capacity), 0)
         IN ScanStack(q, px, py, r.vis, r.stk)

\* The clearing loop is missing: the buffer keeps what it held.
StaleWithOrigin(px, py) ==
    [c \in 0 .. (width * height - 1) |->
        visible[c] \/ (in_bounds(px, py) /\ c = px * height + py)]

\* The buffer after the clearing loop and the write of the origin.
ClearedWithOrigin(px, py) ==
    [c \in 0 .. (width * height - 1) |-> in_bounds(px, py) /\ c = px * height + py]

FirstSector == Sector(1, -1, 1, 1, 1)

\* The stack scan_quadrant starts with.
FirstStack == SectorStack(<<FirstSector>>, SectorStackCapacity(radius))

\* The quadrant loop of catley_native_fov run to completion on the buffer vis.
ScanQuadrants(px, py, vis) ==
    LET v0 == ScanStack(0, px, py, vis, FirstStack)
        v1 == ScanStack(1, px, py, v0, FirstStack)
        v2 == ScanStack(2, px, py, v1, FirstStack)
    IN ScanStack(3, px, py, v2, FirstStack)

\* The visible buffer a call of fov with origin (px, py) ends with, when no
\* allocation fails.
VisibleFrom(px, py) == ScanQuadrants(px, py, ClearedWithOrigin(px, py))

\* ------------------------------------------------------------------------
\* FOV: the inputs the model draws and the call, step by step
\* ------------------------------------------------------------------------
FovCall(fw, fh, tr, stale, px, py, r) ==
    /\ width = fw /\ height = fh
    /\ WfcNoCall /\ WfcAtLoad
    /\ AstarIdle
    /\ transparent = tr
    /\ visible = stale
    /\ ox = px /\ oy = py /\ radius = r
    /\ quadrant = 0 /\ sectors = <<>>
    /\ sector_capacity = 0 /\ fov_mem = NoBuffers(FovBuffers)
    /\ fov_pc = "call" /\ fov_rc = 0

\* Every grid of up to MaxFovCells cells, every in-bounds origin, every
\* radius from 0; the visible buffer comes in with every cell set.
InitFovInside ==
    \E fw \in 1 .. FovWidth :
    \E fh \in {x \in 1 .. FovHeight : fw * x <= MaxFovCells} :
    \E tr \in [0 .. (fw * fh - 1) -> BOOLEAN] :
    \E px \in 0 .. (fw - 1), py \in 0 .. (fh - 1), r \in 0 .. MaxRadius :
        FovCall(fw, fh, tr, [c \in 0 .. (fw * fh - 1) |-> TRUE], px, py, r)

\* Smaller grids with the origin one step outside the grid or a negative
\* radius; the visible buffer comes in with every other cell set.
InitFovEdge ==
    \E fw \in 1 .. FovWidth :
    \E fh \in {x \in 1 .. FovHeight : fw * x + 2 <= MaxFovCells} :
    \E tr \in [0 .. (fw * fh - 1) -> BOOLEAN] :
    \E px \in -1 .. fw, py \in -1 .. fh, r \in -1 .. MaxRadius :
        /\ r < 0 \/ px < 0 \/ px >= fw \/ py < 0 \/ py >= fh
        /\ FovCall(fw, fh, tr, [c \in 0 .. (fw * fh - 1) |-> c % 2 = 0], px, py, r)

\* Fully transparent grids up to OpenSide x OpenSide, every in-bounds origin.
InitFovOpen ==
    \E fw \in 1 .. OpenSide, fh \in 1 .. OpenSide :
    \E px \in 0 .. (fw - 1), py \in 0 .. (fh - 1), r \in 0 .. MaxRadius :
        FovCall(fw, fh, [c \in 0 .. (fw * fh - 1) |-> TRUE],
                [c \in 0 .. (fw * fh - 1) |-> TRUE], px, py, r)

InitFov == InitFovInside \/ InitFovEdge \/ InitFovOpen

\* The clearing loop and the write of the origin.
FovClear ==
    /\ fov_pc = "call"
    /\ visible' = ClearedWithOrigin(ox, oy)
    /\ quadrant' = 0
    /\ fov_pc' = "quadrant"
    /\ UNCHANGED <<transparent, ox, oy, radius, sectors, fovMemory, fov_rc>>
    /\ UNCHANGED <<wfcVars, astarVars>>

\* The entry of scan_quadrant: malloc of the stack, push of the first sector.
FovQuadrantStart ==
    /\ fov_pc = "quadrant"
    /\ quadrant < 4
    /\ \E malloc_ok \in BOOLEAN :
         IF malloc_ok
         THEN /\ sectors' = FirstStack.data
              /\ sector_capacity' = FirstStack.capacity
              /\ fov_mem' = Allocate(fov_mem, "stack")
              /\ fov_pc' = "scan"
              /\ UNCHANGED fov_rc
         ELSE /\ fov_rc' = -1
              /\ fov_pc' = "done"
              /\ UNCHANGED <<sectors, fovMemory>>
    /\ UNCHANGED <<transparent, visible, ox, oy, radius, quadrant>>
    /\ UNCHANGED <<wfcVars, astarVars>>

\* One round of the while loop of scan_quadrant; a push whose realloc fails
\* has freed the stack, scan_quadrant returns -1 and fov gives up.
FovScanSector ==
    /\ fov_pc = "scan"
    /\ Len(sectors) > 0
    /\ \E fail_at \in ReallocFailures :
         LET r == ScanSector(quadrant, ox, oy, sectors[Len(sectors)], visible,
                             SectorStack(SubSeq(sectors, 1, Len(sectors) - 1),
                                         sector_capacity), fail_at)
         IN /\ visible' = r.vis
            /\ sectors' = r.stk.data
            /\ IF r.stk.failed
               THEN /\ fov_mem' = ReleaseAndClear(fov_mem, "stack")
                    /\ fov_rc' = -1
                    /\ fov_pc' = "done"
                    /\ UNCHANGED sector_capacity
               ELSE /\ sector_capacity' = r.stk.capacity
                    /\ UNCHANGED <<fov_mem, fov_pc, fov_rc>>
    /\ UNCHANGED <<transparent, ox, oy, radius, quadrant>>
    /\ UNCHANGED <<wfcVars, astarVars>>

\* The stack is empty: scan_quadrant frees it and returns 0.
FovQuadrantEnd ==
    /\ fov_pc = "scan"
    /\ Len(sectors) = 0
    /\ fov_mem' = Release(fov_mem, "stack")
    /\ quadrant' = quadrant + 1
    /\ fov_pc' = "quadrant"
    /\ UNCHANGED <<transparent, visible, ox, oy, radius, sectors, sector_capacity, fov_rc>>
    /\ UNCHANGED <<wfcVars, astarVars>>

\* All four quadrants are scanned: fov returns None.
FovReturn ==
    /\ fov_pc = "quadrant"
    /\ quadrant = 4
    /\ fov_pc' = "done"
    /\ UNCHANGED <<transparent, visible, ox, oy, radius, quadrant, sectors, fovMemory,
                   fov_rc>>
    /\ UNCHANGED <<wfcVars, astarVars>>

NextFov ==
    \/ FovClear
    \/ FovQuadrantStart
    \/ FovScanSector
    \/ FovQuadrantEnd
    \/ FovReturn

SpecFov == InitFov /\ [][NextFov]_<<fovVars, width, height>>

\* ------------------------------------------------------------------------
\* FOV: properties
\* ------------------------------------------------------------------------
FovReturned == fov_pc = "done" /\ fov_rc = 0

\* C2 as stated: when fov with origin a has returned, for every in-bounds
\* cell b, transparent or opaque, visible[b] is set if and only if fov with
\* origin b (same grid, same radius) sets visible[a].
C2_SymmetricAllPairs ==
    (FovReturned /\ in_bounds(ox, oy)) =>
        \A bx \in 0 .. (width - 1), by \in 0 .. (height - 1) :
            visible[bx * height + by] <=> VisibleFrom(bx, by)[ox * height + oy]

\* C2 amended: when fov with a transparent origin a has returned, for every
\* in-bounds transparent cell b, visible[b] is set if and only if fov with
\* origin b (same grid, same radius) sets visible[a].
C2_SymmetricTransparentPairs ==
    (FovReturned /\ in_bounds(ox, oy) /\ transparent[ox * height + oy]) =>
        \A bx \in 0 .. (width - 1), by \in 0 .. (height - 1) :
            transparent[bx * height + by] =>
                (visible[bx * height + by] <=> VisibleFrom(bx, by)[ox * height + oy])

\* A returned call from a transparent origin on a grid with a wall, in which
\* one transparent cell is seen (both ways) and another is hidden (both ways).
C2_Witness ==
    /\ FovReturned /\ in_bounds(ox, oy) /\ transparent[ox * height + oy]
    /\ \E c \in 0 .. (width * height - 1) : ~transparent[c]
    /\ \E bx \in 0 .. (width - 1), by \in 0 .. (height - 1) :
          /\ <<bx, by>> # <<ox, oy>>
          /\ transparent[bx * height + by]
          /\ visible[bx * height + by]
          /\ VisibleFrom(bx, by)[ox * height + oy]
    /\ \E bx \in 0 .. (width - 1), by \in 0 .. (height - 1) :
          /\ transparent[bx * height + by]
          /\ ~visible[bx * height + by]
          /\ ~VisibleFrom(bx, by)[ox * height + oy]
          /\ (bx - ox) <= radius /\ (ox - bx) <= radius
          /\ (by - oy) <= radius /\ (oy - by) <= radius

\* ------------------------------------------------------------------------
\* A*: bounds
\* ------------------------------------------------------------------------
AstarWidth == 3
AstarHeight == 2
MaxAstarCells == 6

\* The capacity the astar heap starts with at most and grows to at least:
\* 256 in the code, scaled to the grids of the model.
HeapCapLimit == 2

\* The traversal weights a cell of the exhaustive grids may carry.
CostValues == {0, 1, 2}

\* The side of the largest uniform grid, and the weights its cells may carry.
UniformSide == 4
UniformCosts == {1, 3}

\* ------------------------------------------------------------------------
\* A*: scores.  A double of the code is the exact real a + b * sqrt(2),
\* written <<a, b>> with integers a and b; rounding is not modelled.  The
\* f-scores of the heap are kept in hundredths: <<a, b>> is (a + b*sqrt(2))/100.
\* ------------------------------------------------------------------------
QPlus(x, y) == <<x[1] + y[1], x[2] + y[2]>>

QScale(k, x) == <<k * x[1], k * x[2]>>

\* The sign of a + b * sqrt(2).
QSign(x) ==
    LET a == x[1]
        b == x[2]
    IN IF a = 0 /\ b = 0 THEN 0
       ELSE IF a >= 0 /\ b >= 0 THEN 1
       ELSE IF a <= 0 /\ b <= 0 THEN -1
       ELSE IF a > 0 THEN (IF a * a > 2 * b * b THEN 1 ELSE -1)
       ELSE (IF 2 * b * b > a * a THEN 1 ELSE -1)

QLess(x, y) == QSign(<<x[1] - y[1], x[2] - y[2]>>) < 0

QLeq(x, y) == QSign(<<x[1] - y[1], x[2] - y[2]>>) <= 0

\* g_score starts at 1e30; here a value above every finite score of the model.
G_INFINITY == <<30000, 0>>

\* HEURISTIC_WEIGHT = 1.01, in hundredths.
HEURISTIC_WEIGHT == 101

DX == <<-1, 1, 0, 0, -1, -1, 1, 1>>
DY == <<0, 0, -1, 1, -1, 1, -1, 1>>

\* The Manhattan distance dx + dy in place of the octile distance.
manhattan_h_from_deltas(dx, dy) == <<dx + dy, 0>>

\* (dx + dy) + SQRT2_MINUS_2 * mn = (dx + dy - 2 mn) + mn * sqrt(2)
octile_h_from_deltas(dx, dy) ==
    LET mn == IF dx < dy THEN dx ELSE dy
    IN <<dx + dy - 2 * mn, mn>>

AbsDiff(a, b) == IF a - b < 0 THEN b - a ELSE a - b

\* The heuristic term with twice the weight of the code.
WeightedHeuristicDouble(x, y) ==
    QScale(2 * HEURISTIC_WEIGHT, octile_h_from_deltas(AbsDiff(x, gx), AbsDiff(y, gy)))

\* HEURISTIC_WEIGHT * octile_h_from_deltas(goal_dx[x], goal_dy[y]), in hundredths.
WeightedHeuristic(x, y) ==
    QScale(HEURISTIC_WEIGHT, octile_h_from_deltas(AbsDiff(x, gx), AbsDiff(y, gy)))

\* f = g + weighted heuristic, in hundredths.
FScore(g, x, y) == QPlus(QScale(100, g), WeightedHeuristic(x, y))

\* A diagonal step costs three orthogonal ones.
StepCostDearDiagonal(nc, dd) == IF dd < 4 THEN <<nc, 0>> ELSE <<3 * nc, 0>>

\* (double)nc * mult, mult = 1.0 for d < 4 and SQRT2 otherwise.
StepCost(nc, dd) == IF dd < 4 THEN <<nc, 0>> ELSE <<0, nc>>

\* The neighbour loop never treats a cell as impassable.
NeighbourBlockedNever(nc) == FALSE

\* if (nc == 0) continue;
NeighbourBlocked(nc) == nc = 0

\* Diagonal directions fall back on the orthogonal ones.
NeighbourOrthogonalOnly(cx, cy, dd) == <<cx + DX[(dd % 4) + 1], cy + DY[(dd % 4) + 1]>>

\* nx = cx + DX[d], ny = cy + DY[d]
Neighbour(cx, cy, dd) == <<cx + DX[dd + 1], cy + DY[dd + 1]>>

\* ------------------------------------------------------------------------
\* A*: the open set, a binary min-heap hp = [data, pos] with a position index
\* ------------------------------------------------------------------------
\* The swap of the two entries alone, the position index left as it was.
heap_swap_data_only(hp, a, b) ==
    [data |-> [hp.data EXCEPT ![a + 1] = hp.data[b + 1], ![b + 1] = hp.data[a + 1]],
     pos |-> hp.pos]

heap_swap(hp, a, b) ==
    LET data2 == [hp.data EXCEPT ![a + 1] = hp.data[b + 1], ![b + 1] = hp.data[a + 1]]
    IN [data |-> data2,
        pos |-> [hp.pos EXCEPT ![data2[a + 1].idx] = a, ![data2[b + 1].idx] = b]]

RECURSIVE heap_sift_up(_, _)
heap_sift_up(hp, i) ==
    IF i > 0
    THEN LET parent == (i - 1) \div 2
         IN IF QLeq(hp.data[parent + 1].f, hp.data[i + 1].f) THEN hp
            ELSE heap_sift_up(heap_swap(hp, parent, i), parent)
    ELSE hp

RECURSIVE heap_sift_down(_, _)
heap_sift_down(hp, i) ==
    LET size == Len(hp.data)
        left == 2 * i + 1
        right == left + 1
        s1 == IF left < size /\ QLess(hp.data[left + 1].f, hp.data[i + 1].f)
              THEN left ELSE i
        smallest == IF right < size /\ QLess(hp.data[right + 1].f, hp.data[s1 + 1].f)
                    THEN right ELSE s1
    IN IF smallest = i THEN hp
       ELSE heap_sift_down(heap_swap(hp, smallest, i), smallest)

\* The realloc branch needs a full heap and a cell that is not in it; with
\* capacity = w * h (below 256 cells) no such cell exists.
heap_push_or_decrease(hp, f, idx) ==
    LET p == hp.pos[idx]
    IN IF p >= 0
       THEN IF ~QLess(f, hp.data[p + 1].f) THEN hp
            ELSE heap_sift_up([hp EXCEPT !.data[p + 1].f = f], p)
       ELSE LET i == Len(hp.data)
            IN heap_sift_up([data |-> Append(hp.data, [f |-> f, idx |-> idx]),
                             pos |-> [hp.pos EXCEPT ![idx] = i]], i)

\* The heap after heap_pop; the popped entry is hp.data[1].
astar_heap_pop(hp) ==
    LET top == hp.data[1]
        pos1 == [hp.pos EXCEPT ![top.idx] = -1]
        size == Len(hp.data) - 1
    IN IF size > 0
       THEN LET last == hp.data[size + 1]
                data2 == [SubSeq(hp.data, 1, size) EXCEPT ![1] = last]
            IN heap_sift_down([data |-> data2, pos |-> [pos1 EXCEPT ![last.idx] = 0]], 0)
       ELSE [data |-> <<>>, pos |-> pos1]

\* ------------------------------------------------------------------------
\* A*: the inputs the model draws
\* ------------------------------------------------------------------------
AstarCall(cw, ch, costs, csx, csy, cgx, cgy) ==
    /\ width = 0 /\ height = 0
    /\ WfcNoCall /\ WfcAtLoad
    /\ FovIdle
    /\ cost = costs /\ cost_w = cw /\ cost_h = ch
    /\ sx = csx /\ sy = csy /\ gx = cgx /\ gy = cgy
    /\ g_score = <<>> /\ came_from = <<>> /\ closed = <<>>
    /\ heap_pos = <<>> /\ open = <<>>
    /\ ci = 0 /\ dir_d = 0 /\ found = 0 /\ path = <<>>
    /\ open_capacity = 0 /\ astar_mem = NoBuffers(AstarBuffers)
    /\ astar_pc = "call" /\ astar_rc = "none"

\* Every small grid over CostValues, every pair of in-bounds endpoints.
InitAstarSmall ==
    \E cw \in 1 .. AstarWidth :
    \E ch \in {x \in 1 .. AstarHeight : cw * x <= MaxAstarCells} :
    \E costs \in [0 .. (cw * ch - 1) -> CostValues] :
    \E csx \in 0 .. (cw - 1), csy \in 0 .. (ch - 1) :
    \E cgx \in 0 .. (cw - 1), cgy \in 0 .. (ch - 1) :
        AstarCall(cw, ch, costs, csx, csy, cgx, cgy)

\* A 5x3 map with a wall along the middle row and in the top right corner:
\* the bottom row is a straight corridor with one heavy cell, the top row a
\* detour that re-enters through a gate cell of cost gate.
DetourCosts(heavy, gate) ==
    [c \in 0 .. 14 |->
        IF c \in {4, 7, 10, 12} THEN 0      \* (1,1), (2,1), (3,1), (4,0)
        ELSE IF c = 5 THEN heavy            \* (1,2)
        ELSE IF c = 13 THEN gate            \* (4,1)
        ELSE 1]

InitAstarDetour ==
    \E heavy \in {1, 41, 42}, gate \in {1, 28} :
    \E ends \in {<<0, 2, 4, 2>>, <<4, 2, 0, 2>>} :
        AstarCall(5, 3, DetourCosts(heavy, gate), ends[1], ends[2], ends[3], ends[4])

\* Every 3x3 maze of unit-cost floor and walls, from a corner, the centre or
\* an opposite corner to every cell.
InitAstarMaze ==
    \E costs \in [0 .. 8 -> {0, 1}] :
    \E from \in {<<0, 0>>, <<1, 1>>, <<2, 0>>} :
    \E cgx \in 0 .. 2, cgy \in 0 .. 2 :
        AstarCall(3, 3, costs, from[1], from[2], cgx, cgy)

\* Endpoints outside the grid.
InitAstarOutOfBounds ==
    \E csx \in {-1, 0, 2}, csy \in {0, 1}, cgx \in {0, 1}, cgy \in {-1, 0, 2} :
        /\ csx \notin 0 .. 1 \/ cgy \notin 0 .. 1
        /\ AstarCall(2, 2, [c \in 0 .. 3 |-> 1], csx, csy, cgx, cgy)

\* Grids whose cells all carry the same weight c > 0, every pair of
\* distinct in-bounds endpoints.
InitAstarUniform ==
    \E cw \in 1 .. UniformSide, ch \in 1 .. UniformSide, c \in UniformCosts :
    \E csx \in 0 .. (cw - 1), csy \in 0 .. (ch - 1) :
    \E cgx \in 0 .. (cw - 1), cgy \in 0 .. (ch - 1) :
        /\ <<csx, csy>> # <<cgx, cgy>>
        /\ AstarCall(cw, ch, [i \in 0 .. (cw * ch - 1) |-> c], csx, csy, cgx, cgy)

\* Two 4x3 maps on which a cell is popped, and closed, before the cheapest
\* route to it has been found (30*sqrt(2) against 41 + sqrt(2)).
LateRouteCosts ==
    {<<17, 29, 12, 7, 99, 1, 12, 29, 12, 29, 41, 0>>,
     <<29, 1, 99, 29, 0, 29, 70, 7, 12, 7, 5, 1>>}

InitAstarLateRoute ==
    \E costs \in LateRouteCosts :
    \E csx \in 0 .. 3, csy \in 0 .. 2, cgx \in 0 .. 3, cgy \in 0 .. 2 :
        AstarCall(4, 3, [i \in 0 .. 11 |-> costs[i + 1]], csx, csy, cgx, cgy)

InitAstar ==
    \/ InitAstarLateRoute
    \/ InitAstarSmall
    \/ InitAstarMaze
    \/ InitAstarDetour
    \/ InitAstarOutOfBounds
    \/ InitAstarUniform

\* ------------------------------------------------------------------------
\* A*: the call, step by step
\* ------------------------------------------------------------------------
start_idx == sx * cost_h + sy
goal_idx == gx * cost_h + gy

AstarReturn(rc) ==
    /\ astar_pc' = "done"
    /\ astar_rc' = rc

\* The mallocs of astar_search that fail together: none, one, or all six.
SearchAllocFailures ==
    {{}} \cup {{SearchBuffers[i]} : i \in 1 .. 6} \cup {{SearchBuffers[i] : i \in 1 .. 6}}

\* A successful malloc into each pointer of the set bs.
AllocateEach(mem, bs) ==
    [b \in DOMAIN mem |-> IF b \in bs THEN Allocate(mem, b)[b] ELSE mem[b]]

\* The frees of an error return of astar_search before heap_init succeeded.
SearchRelease(mem) == ReleaseAll(mem, SearchBuffers)

\* heap_free and the six frees of astar_search.
SearchReleaseAll(mem) == ReleaseAll(ReleaseAndClear(mem, "heap"), SearchBuffers)

\* int initial_cap = size < 256 ? size : 256;
InitialCapacity(size) == IF size < HeapCapLimit THEN size ELSE HeapCapLimit

\* new_cap = capacity * 2; if (new_cap < 256) new_cap = 256;
GrownCapacity(capacity) ==
    IF capacity * 2 < HeapCapLimit THEN HeapCapLimit ELSE capacity * 2

\* brileta_native_astar up to the call of astar_search.
AstarEnter ==
    /\ astar_pc = "call"
    /\ IF sx < 0 \/ sx >= cost_w \/ sy < 0 \/ sy >= cost_h
          \/ gx < 0 \/ gx >= cost_w \/ gy < 0 \/ gy >= cost_h
       THEN AstarReturn("ValueError") /\ UNCHANGED astar_mem
       ELSE IF sx = gx /\ sy = gy
       THEN AstarReturn("list") /\ UNCHANGED astar_mem
       ELSE \E malloc_ok \in BOOLEAN :
              IF malloc_ok
              THEN /\ astar_pc' = "search"
                   /\ astar_mem' = Allocate(astar_mem, "path_buf")
                   /\ UNCHANGED astar_rc
              ELSE AstarReturn("MemoryError") /\ UNCHANGED astar_mem
    /\ UNCHANGED <<astarInputs, g_score, came_from, closed, heap_pos, open, ci, dir_d,
                   found, path, open_capacity>>
    /\ UNCHANGED <<wfcVars, fovVars>>

\* astar_search up to its main loop: quick exit, allocations, initialization;
\* on an error return the caller frees path_buf.
AstarSearchInit ==
    /\ astar_pc = "search"
    /\ IF cost[start_idx] = 0 \/ cost[goal_idx] = 0
       THEN /\ \E list_ok \in BOOLEAN :
                 AstarReturn(IF list_ok THEN "list" ELSE "MemoryError")
            /\ astar_mem' = Release(astar_mem, "path_buf")
            /\ UNCHANGED <<g_score, came_from, closed, heap_pos, open, found, open_capacity>>
       ELSE \E failing \in SearchAllocFailures, heap_init_ok \in BOOLEAN :
              LET size == cost_w * cost_h
                  obtained == AllocateEach(astar_mem,
                                  {SearchBuffers[i] : i \in 1 .. 6} \ failing)
              IN IF failing # {} \/ ~heap_init_ok
                 THEN /\ AstarReturn("MemoryError")
                      /\ astar_mem' = Release(SearchRelease(obtained), "path_buf")
                      /\ UNCHANGED <<g_score, came_from, closed, heap_pos, open, found,
                                     open_capacity>>
                 ELSE LET hp == heap_push_or_decrease(
                                    [data |-> <<>>, pos |-> [i \in 0 .. (size - 1) |-> -1]],
                                    WeightedHeuristic(sx, sy), start_idx)
                      IN /\ g_score' = [i \in 0 .. (size - 1) |->
                                           IF i = start_idx THEN <<0, 0>> ELSE G_INFINITY]
                         /\ came_from' = [i \in 0 .. (size - 1) |-> -1]
                         /\ closed' = [i \in 0 .. (size - 1) |-> 0]
                         /\ open' = hp.data
                         /\ heap_pos' = hp.pos
                         /\ open_capacity' = InitialCapacity(size)
                         /\ astar_mem' = Allocate(obtained, "heap")
                         /\ found' = 0
                         /\ astar_pc' = "loop"
                         /\ UNCHANGED astar_rc
    /\ UNCHANGED <<astarInputs, ci, dir_d, path>>
    /\ UNCHANGED <<wfcVars, fovVars>>

\* The head of the main loop: heap_pop, the goal test, closed[ci] = 1.
AstarPop ==
    /\ astar_pc = "loop"
    /\ IF Len(open) = 0
       THEN /\ astar_pc' = "finish"
            /\ UNCHANGED <<open, heap_pos, ci, closed, found, dir_d>>
       ELSE LET hp == astar_heap_pop([data |-> open, pos |-> heap_pos])
                top == open[1]
            IN /\ open' = hp.data
               /\ heap_pos' = hp.pos
               /\ ci' = top.idx
               /\ IF top.idx = goal_idx
                  THEN /\ found' = 1
                       /\ astar_pc' = "finish"
                       /\ UNCHANGED <<closed, dir_d>>
                  ELSE /\ closed' = [closed EXCEPT ![top.idx] = 1]
                       /\ dir_d' = 0
                       /\ astar_pc' = "neighbour"
                       /\ UNCHANGED found
    /\ UNCHANGED <<astarInputs, g_score, came_from, path, astarMemory, astar_rc>>
    /\ UNCHANGED <<wfcVars, fovVars>>

\* One round of the neighbour loop, for direction d of the popped cell; a
\* push whose realloc fails ends the search with -1.
AstarNeighbour ==
    /\ astar_pc = "neighbour"
    /\ LET cx == ci \div cost_h
           cy == ci % cost_h
           n == Neighbour(cx, cy, dir_d)
           nx == n[1]
           ny == n[2]
           ni == nx * cost_h + ny
           skip == /\ dir_d' = dir_d + 1
                   /\ astar_pc' = IF dir_d < 7 THEN "neighbour" ELSE "loop"
                   /\ UNCHANGED <<g_score, came_from, open, heap_pos, astarMemory, astar_rc>>
       IN IF nx < 0 \/ nx >= cost_w \/ ny < 0 \/ ny >= cost_h THEN skip
          ELSE IF closed[ni] # 0 THEN skip
          ELSE IF NeighbourBlocked(cost[ni]) THEN skip
          ELSE LET tent_g == QPlus(g_score[ci], StepCost(cost[ni], dir_d))
               IN IF QLess(tent_g, g_score[ni])
                  THEN \E realloc_ok \in IF heap_pos[ni] < 0
                                         THEN ReallocOutcomes(Len(open), open_capacity)
                                         ELSE {TRUE} :
                       /\ g_score' = [g_score EXCEPT ![ni] = tent_g]
                       /\ came_from' = [came_from EXCEPT ![ni] = ci]
                       /\ IF realloc_ok
                          THEN LET hp == heap_push_or_decrease(
                                             [data |-> open, pos |-> heap_pos],
                                             FScore(tent_g, nx, ny), ni)
                               IN /\ open' = hp.data
                                  /\ heap_pos' = hp.pos
                                  /\ open_capacity' =
                                         IF heap_pos[ni] < 0 /\ Len(open) >= open_capacity
                                         THEN GrownCapacity(open_capacity)
                                         ELSE open_capacity
                                  /\ dir_d' = dir_d + 1
                                  /\ astar_pc' = IF dir_d < 7 THEN "neighbour" ELSE "loop"
                                  /\ UNCHANGED <<astar_mem, astar_rc>>
                          ELSE /\ AstarReturn("MemoryError")
                               /\ astar_mem' = Release(SearchReleaseAll(astar_mem), "path_buf")
                               /\ UNCHANGED <<open, heap_pos, open_capacity, dir_d>>
                  ELSE skip
    /\ UNCHANGED <<astarInputs, closed, ci, found, path>>
    /\ UNCHANGED <<wfcVars, fovVars>>

\* out_path before the reversal: goal first, following came_from to the start.
RECURSIVE WalkBack(_)
WalkBack(node) ==
    IF node = start_idx THEN <<>> ELSE <<node>> \o WalkBack(came_from[node])

Reversed(seq) == [i \in 1 .. Len(seq) |-> seq[Len(seq) + 1 - i]]

\* The reconstruction, the frees of astar_search, the list of (x, y) tuples
\* (whose construction may fail) and free(path_buf).
AstarFinish ==
    /\ astar_pc = "finish"
    /\ \E list_ok \in BOOLEAN :
         IF list_ok
         THEN /\ LET out_path == IF found = 1 THEN Reversed(WalkBack(goal_idx)) ELSE <<>>
                 IN path' = [i \in 1 .. Len(out_path) |->
                                <<out_path[i] \div cost_h, out_path[i] % cost_h>>]
              /\ AstarReturn("list")
         ELSE /\ AstarReturn("MemoryError")
              /\ UNCHANGED path
    /\ astar_mem' = Release(SearchReleaseAll(astar_mem), "path_buf")
    /\ UNCHANGED <<astarInputs, g_score, came_from, closed, heap_pos, open, ci, dir_d,
                   found, open_capacity>>
    /\ UNCHANGED <<wfcVars, fovVars>>

NextAstar ==
    \/ AstarEnter
    \/ AstarSearchInit
    \/ AstarPop
    \/ AstarNeighbour
    \/ AstarFinish

SpecAstar == InitAstar /\ [][NextAstar]_astarVars

\* ------------------------------------------------------------------------
\* A*: properties
\* ------------------------------------------------------------------------
AstarCells == 0 .. (cost_w * cost_h - 1)

\* b is one of the 8 neighbours of a (flat indices).
Adjacent8(a, b) ==
    LET ax == a \div cost_h
        ay == a % cost_h
        bx == b \div cost_h
        by == b % cost_h
    IN /\ a # b
       /\ bx - ax \in {-1, 0, 1}
       /\ by - ay \in {-1, 0, 1}

\* The cells reachable from the set R by 8-neighbour moves into cells of
\* cost > 0 (a diagonal move needs nothing of the cells beside it).
RECURSIVE ReachableFrom(_)
ReachableFrom(R) ==
    LET R2 == R \cup {c \in AstarCells : cost[c] > 0 /\ \E p \in R : Adjacent8(p, c)}
    IN IF R2 = R THEN R ELSE ReachableFrom(R2)

EndpointsInBounds ==
    /\ sx >= 0 /\ sx < cost_w /\ sy >= 0 /\ sy < cost_h
    /\ gx >= 0 /\ gx < cost_w /\ gy >= 0 /\ gy < cost_h

GoalReachable == goal_idx \in ReachableFrom({start_idx})

\* The returned list as flat indices, with the start cell in front.
FullWalk == <<start_idx>> \o [i \in 1 .. Len(path) |-> path[i][1] * cost_h + path[i][2]]

\* The total cost of a walk given as flat indices: every entered cell costs
\* cost[cell] for an orthogonal step and cost[cell] * sqrt(2) for a diagonal.
RECURSIVE WalkCost(_, _)
WalkCost(walk, i) ==
    IF i >= Len(walk) THEN <<0, 0>>
    ELSE LET a == walk[i]
             b == walk[i + 1]
             diagonal == (a \div cost_h # b \div cost_h) /\ (a % cost_h # b % cost_h)
         IN QPlus(IF diagonal THEN <<0, cost[b]>> ELSE <<cost[b], 0>>,
                  WalkCost(walk, i + 1))

\* The least of a non-empty set of scores.
QMin(S) == CHOOSE x \in S : \A y \in S : QLeq(x, y)

\* One round of relaxation of every cell: dist is the sequence of the best
\* costs known (dist[c + 1] for cell c), acc the sequence being built.
RECURSIVE RelaxAll(_, _)
RelaxAll(dist, acc) ==
    LET c == Len(acc)
    IN IF c = Len(dist) THEN acc
       ELSE RelaxAll(dist,
              Append(acc,
                IF cost[c] <= 0 THEN dist[c + 1]
                ELSE QMin({dist[c + 1]} \cup
                          {QPlus(dist[p + 1],
                                 IF (p \div cost_h # c \div cost_h) /\ (p % cost_h # c % cost_h)
                                 THEN <<0, cost[c]>> ELSE <<cost[c], 0>>) :
                             p \in {q \in AstarCells : Adjacent8(q, c) /\ dist[q + 1] # G_INFINITY}})))

RECURSIVE RelaxRounds(_, _)
RelaxRounds(dist, k) == IF k = 0 THEN dist ELSE RelaxRounds(RelaxAll(dist, <<>>), k - 1)

\* The minimum total cost over all 8-neighbour walks from start to cell c
\* through cells of cost > 0 (G_INFINITY when there is none).
MinimumCostTo(c) ==
    LET n == cost_w * cost_h
        d0 == [i \in 1 .. n |-> IF i = start_idx + 1 THEN <<0, 0>> ELSE G_INFINITY]
    IN RelaxRounds(d0, n)[c + 1]

MinimumCost == MinimumCostTo(goal_idx)

PathReturned == astar_pc = "done" /\ astar_rc = "list" /\ Len(path) > 0

\* C3 as stated: the total cost of a returned path equals the minimum total
\* cost over all 8-neighbour walks from start to goal through cells of
\* cost > 0.
C3_PathIsShortest ==
    PathReturned => WalkCost(FullWalk, 1) = MinimumCost

\* C3 amended: the total cost of a returned path is at most HEURISTIC_WEIGHT
\* (1.01) times the minimum total cost over all 8-neighbour walks from start
\* to goal through cells of cost > 0, and never below that minimum.
C3_PathWithinHeuristicWeight ==
    PathReturned =>
        /\ QLeq(QScale(100, WalkCost(FullWalk, 1)), QScale(HEURISTIC_WEIGHT, MinimumCost))
        /\ QLeq(MinimumCost, WalkCost(FullWalk, 1))

\* A returned path that costs more than the minimum, within the weight.
C3_Witness ==
    /\ PathReturned
    /\ QLess(MinimumCost, WalkCost(FullWalk, 1))
    /\ QLeq(QScale(100, WalkCost(FullWalk, 1)), QScale(HEURISTIC_WEIGHT, MinimumCost))

\* C4: a non-empty result, prepended with the start cell, is a walk whose
\* consecutive cells are distinct 8-neighbours, whose cells are all in bounds
\* and of cost > 0, whose last cell is the goal, and the start cell is not in
\* the returned sequence.
C4_PathIsWalk ==
    PathReturned =>
        /\ \A i \in 1 .. Len(path) :
              /\ path[i][1] >= 0 /\ path[i][1] < cost_w
              /\ path[i][2] >= 0 /\ path[i][2] < cost_h
              /\ path[i] # <<sx, sy>>
        /\ \A i \in 1 .. Len(FullWalk) : cost[FullWalk[i]] > 0
        /\ \A i \in 1 .. (Len(FullWalk) - 1) : Adjacent8(FullWalk[i], FullWalk[i + 1])
        /\ path[Len(path)] = <<gx, gy>>

\* A returned path of several steps that takes a diagonal past a wall.
C4_Witness ==
    /\ PathReturned
    /\ Len(path) >= 3
    /\ \E c \in AstarCells : cost[c] = 0
    /\ \E i \in 1 .. (Len(FullWalk) - 1) :
          /\ FullWalk[i] \div cost_h # FullWalk[i + 1] \div cost_h
          /\ FullWalk[i] % cost_h # FullWalk[i + 1] % cost_h

\* C5: for in-bounds endpoints astar returns the empty sequence exactly when
\* start = goal, or cost[start] = 0, or cost[goal] = 0, or the goal cannot be
\* reached from the start by 8-neighbour moves through cells of cost > 0
\* (diagonals unconditionally allowed); otherwise it returns a non-empty path
\* that ends at the goal.
C5_EmptyExactlyWhenNoPath ==
    (astar_pc = "done" /\ astar_rc = "list") =>
        /\ EndpointsInBounds
        /\ Len(path) = 0 <=>
              \/ start_idx = goal_idx
              \/ cost[start_idx] = 0
              \/ cost[goal_idx] = 0
              \/ ~GoalReachable
        /\ Len(path) > 0 => path[Len(path)] = <<gx, gy>>

\* A search that returns a path to a goal reachable only by squeezing
\* diagonally between two walls.
C5_Witness ==
    /\ PathReturned
    /\ \E i \in 1 .. (Len(FullWalk) - 1) :
          LET a == FullWalk[i]
              b == FullWalk[i + 1]
          IN /\ a \div cost_h # b \div cost_h
             /\ a % cost_h # b % cost_h
             /\ cost[(a \div cost_h) * cost_h + (b % cost_h)] = 0
             /\ cost[(b \div cost_h) * cost_h + (a % cost_h)] = 0

\* ------------------------------------------------------------------------
\* FOV: properties of the lit set
\* ------------------------------------------------------------------------
FovCellsXY == (0 .. (width - 1)) \X (0 .. (height - 1))

\* max(|x - ox|, |y - oy|)
Chebyshev(x, y) ==
    LET ax == IF x - ox < 0 THEN ox - x ELSE x - ox
        ay == IF y - oy < 0 THEN oy - y ELSE y - oy
    IN IF ax > ay THEN ax ELSE ay

\* C12: from the clearing loop on, every cell marked visible other than the
\* origin lies within Chebyshev distance radius of the origin, for every
\* origin (in bounds or not) and every radius; with radius <= 0 no cell other
\* than the origin is marked.
C12_VisibleWithinRadius ==
    fov_pc \in {"quadrant", "scan", "done"} =>
        \A c \in FovCellsXY :
            (visible[c[1] * height + c[2]] /\ c # <<ox, oy>>) =>
                (radius >= 1 /\ Chebyshev(c[1], c[2]) <= radius)

\* A returned call of radius >= 1 that lit a cell at distance radius exactly
\* and left a transparent cell at distance radius + 1 dark, on an open grid.
C12_Witness ==
    /\ FovReturned /\ radius >= 1
    /\ \A c \in FovCellsXY : transparent[c[1] * height + c[2]]
    /\ \E c \in FovCellsXY :
          visible[c[1] * height + c[2]] /\ Chebyshev(c[1], c[2]) = radius
    /\ \E c \in FovCellsXY :
          ~visible[c[1] * height + c[2]] /\ Chebyshev(c[1], c[2]) = radius + 1

FullyTransparent == \A c \in FovCellsXY : transparent[c[1] * height + c[2]]

\* C13: on a fully transparent grid, for an in-bounds origin and a radius
\* >= 0, a returned call has marked exactly the in-bounds cells within
\* Chebyshev distance radius of the origin.
C13_OpenGridLitExactlyWithinRadius ==
    (FovReturned /\ FullyTransparent /\ in_bounds(ox, oy) /\ radius >= 0) =>
        \A c \in FovCellsXY :
            visible[c[1] * height + c[2]] <=> Chebyshev(c[1], c[2]) <= radius

\* The scenario of the specification: 5x5, origin (2,2), radius 2, 25 cells.
C13_Witness ==
    /\ FovReturned /\ FullyTransparent
    /\ width = 5 /\ height = 5 /\ ox = 2 /\ oy = 2 /\ radius = 2
    /\ \A c \in FovCellsXY : visible[c[1] * height + c[2]]

\* The four rays along the origin's row and column.
AxisDirections == {<<0, -1>>, <<1, 0>>, <<0, 1>>, <<-1, 0>>}

\* C14: if an opaque cell lies on the origin's row or column at distance
\* d >= 1, no transparent cell further along the same ray is marked visible
\* by a returned call, for every grid, origin and radius.
C14_NoSightThroughAxisWall ==
    FovReturned =>
        \A dir \in AxisDirections : \A dist \in 1 .. (width + height) :
            LET bx == ox + dist * dir[1]
                by == oy + dist * dir[2]
            IN (in_bounds(bx, by) /\ ~transparent[bx * height + by]) =>
                  \A far \in (dist + 1) .. (width + height + 1) :
                      LET fx == ox + far * dir[1]
                          fy == oy + far * dir[2]
                      IN (in_bounds(fx, fy) /\ transparent[fx * height + fy]) =>
                            ~visible[fx * height + fy]

\* A returned call from a transparent origin with a lit wall on a ray and a
\* dark transparent cell behind it, within the radius.
C14_Witness ==
    /\ FovReturned /\ in_bounds(ox, oy) /\ transparent[ox * height + oy]
    /\ \E dir \in AxisDirections : \E dist \in 1 .. 2 :
          LET bx == ox + dist * dir[1]
              by == oy + dist * dir[2]
              fx == bx + dir[1]
              fy == by + dir[2]
          IN /\ in_bounds(bx, by) /\ in_bounds(fx, fy)
             /\ ~transparent[bx * height + by] /\ visible[bx * height + by]
             /\ transparent[fx * height + fy] /\ ~visible[fx * height + fy]
             /\ dist + 1 <= radius
             /\ \A k \in 1 .. (dist - 1) :
                   transparent[(ox + k * dir[1]) * height + oy + k * dir[2]]

\* What fov computes on a buffer that starts with every cell 0 and, if the
\* origin is in bounds, the origin cell 1: a function of transparent, the
\* origin and the radius alone.
LitFromZero ==
    ScanQuadrants(ox, oy,
        [c \in 0 .. (width * height - 1) |-> in_bounds(ox, oy) /\ c = ox * height + oy])

\* C15: after a returned call the visible buffer is what the call computes
\* from an all-zero buffer, whatever it held before; the origin cell is 1
\* whenever the origin is in bounds (for every radius, opaque origin or not),
\* and with a radius <= 0 every other cell is 0.
C15_VisibleFullyOverwritten ==
    FovReturned =>
        /\ \A c \in 0 .. (width * height - 1) : visible[c] = LitFromZero[c]
        /\ in_bounds(ox, oy) => visible[ox * height + oy]
        /\ radius <= 0 =>
              \A c \in 0 .. (width * height - 1) :
                  visible[c] => (in_bounds(ox, oy) /\ c = ox * height + oy)

\* A returned call of radius <= 0 from an opaque in-bounds origin: the
\* origin is the only cell left set.
C15_Witness ==
    /\ FovReturned /\ radius <= 0 /\ width * height >= 4
    /\ in_bounds(ox, oy) /\ ~transparent[ox * height + oy]
    /\ \A c \in 0 .. (width * height - 1) : visible[c] <=> c = ox * height + oy

\* ------------------------------------------------------------------------
\* A*: uniform grids, and the bound without reopening
\* ------------------------------------------------------------------------
UniformCost == \A c \in AstarCells : cost[c] = cost[0] /\ cost[0] > 0

\* C16: on a grid whose cells all carry the same cost c > 0, for in-bounds
\* start # goal, a returned path has exactly max(|gx - sx|, |gy - sy|) cells.
C16_UniformPathLength ==
    (/\ astar_pc = "done" /\ astar_rc = "list"
     /\ EndpointsInBounds /\ <<sx, sy>> # <<gx, gy>>
     /\ UniformCost) =>
        LET ax == AbsDiff(gx, sx)
            ay == AbsDiff(gy, sy)
        IN Len(path) = IF ax > ay THEN ax ELSE ay

\* A returned path on a uniform grid of weight 3 whose endpoints differ in
\* both coordinates by different amounts: diagonal and orthogonal steps mix.
C16_Witness ==
    /\ PathReturned /\ UniformCost /\ cost[0] = 3
    /\ AbsDiff(gx, sx) = 3 /\ AbsDiff(gy, sy) = 1
    /\ Len(path) = 3

\* A step of the search leaves every closed cell closed, with its g_score
\* and its predecessor, and out of the open heap.
ClosedCellsKept ==
    astar_pc \in {"loop", "neighbour"} =>
        \A c \in AstarCells :
            closed[c] # 0 =>
                /\ closed'[c] # 0
                /\ g_score'[c] = g_score[c]
                /\ came_from'[c] = came_from[c]
                /\ heap_pos'[c] = -1

\* C17: the total cost of a returned path is at most 1.01 times the minimum
\* total cost from start to goal, although a cell, once closed, keeps its
\* g_score and its predecessor and never re-enters the open heap, also when
\* a cheaper route to it exists.
C17_WithinWeightWithoutReopening ==
    /\ [](PathReturned =>
            QLeq(QScale(100, WalkCost(FullWalk, 1)), QScale(101, MinimumCost)))
    /\ [][ClosedCellsKept]_astarVars

\* A returned path, from a search that closed a cell at a g_score above the
\* minimum cost from the start to that cell.
C17_Witness ==
    /\ PathReturned
    /\ \E c \in AstarCells :
          /\ closed[c] # 0
          /\ QLess(MinimumCostTo(c), g_score[c])

\* ------------------------------------------------------------------------
\* WFC: validation and working memory
\* ------------------------------------------------------------------------
\* C18: a call of wfc_solve that is rejected as BadValue or BadShape has
\* obtained no working buffer (private wave copy, entropy heap, propagation
\* stack, in_stack flags): every validation check, the check for stray bits
\* of the initial wave included, is over before the first allocation.
C18_RejectedWithoutAllocation ==
    (wfc_pc = "done" /\ outcome \in {"BadValue", "BadShape"}) =>
        \A b \in WfcBuffers : wfc_mem[b].allocs = 0

\* ------------------------------------------------------------------------
\* The three kernels together: one call of any of them
\* ------------------------------------------------------------------------
InitKernels == InitWfc \/ InitFov \/ InitAstar

NextKernels == NextWfc \/ NextFov \/ NextAstar

SpecKernels == InitKernels /\ [][NextKernels]_<<wfcVars, fovVars, astarVars>>

\* No block has been released more often than it was obtained.
NeverFreedTwice(mem) == \A b \in DOMAIN mem : mem[b].frees <= mem[b].allocs

\* Every block obtained has been released, and no pointer is still live.
AllFreed(mem) == \A b \in DOMAIN mem : mem[b].frees = mem[b].allocs /\ mem[b].ptr # "live"

KernelReturned == wfc_pc = "done" \/ fov_pc = "done" \/ astar_pc = "done"

\* C19: at no point of a kernel call has a working buffer been freed more
\* often than it was allocated, and when the call has returned (success,
\* early exit, Contradiction, validation error, failure of any malloc or of
\* a realloc at a growth point) every buffer it allocated has been freed
\* exactly once.
C19_WorkingMemoryFreedOnce ==
    /\ NeverFreedTwice(wfc_mem) /\ NeverFreedTwice(fov_mem) /\ NeverFreedTwice(astar_mem)
    /\ KernelReturned => (AllFreed(wfc_mem) /\ AllFreed(fov_mem) /\ AllFreed(astar_mem))

\* A call of fov that gave up because the realloc of a full sector stack
\* failed: stack_push has freed the stack and cleared the pointer.
C19_Witness ==
    /\ fov_pc = "done" /\ fov_rc = -1
    /\ fov_mem["stack"].ptr = "null"
    /\ fov_mem["stack"].allocs >= 1
    /\ fov_mem["stack"].frees = fov_mem["stack"].allocs

BothCallsServed ==
    /\ call_no = 2 /\ wfc_pc = "done"
    /\ outcome # "OutOfMemory" /\ first_outcome # "OutOfMemory"

\* C11: a call of wfc_solve repeated with the same arguments and the same
\* seed, after the first call has left the popcount table filled, returns
\* what the first call returned: the same grid cell for cell, or the same
\* error; and it consumes the same draws.
C11_SameInputsSameOutcome ==
    BothCallsServed =>
        /\ outcome = first_outcome
        /\ result = first_result
        /\ rng_trace = replay

C11_Witness ==
    /\ BothCallsServed
    /\ outcome = "grid" /\ first_outcome = "grid"
    /\ first_result[0] # first_result[1]
    /\ Len(replay) >= 5
    /\ \E i, j \in 1 .. Len(replay) : replay[i] # replay[j]
    /\ POPCOUNT_READY = 1

\* ------------------------------------------------------------------------
\* WFC: the loops of the solver
\* ------------------------------------------------------------------------
\* The most cells one call of propagate can pop: the start cell, and every
\* other cell once per bit it can lose while it keeps more than one.
PopBound == 1 + (num_patterns - 1) * (Size - 1)

\* propagate is running.
InPropagate == wfc_pc \in {"propagate", "direction"}

\* C21: whatever the table, one call of propagate pops at most
\* 1 + (num_patterns - 1) * (width * height - 1) cells, and the test of the
\* per-propagate cap (iterations >= 10 * width * height) never succeeds.
C21_PropagateWithinCap ==
    /\ InPropagate => prop_iterations <= PopBound
    /\ (wfc_pc = "propagate" /\ Len(stack) > 0) =>
           prop_iterations + 1 < MaxPropIterations(Size)

\* A propagate that popped cells it had pushed after shrinking them, under
\* a table whose entries are not unions over the source bits.
C21_Witness ==
    /\ wfc_pc = "propagate" /\ Len(stack) = 0
    /\ prop_iterations >= 3
    /\ \E dir \in {1, 3} :
          propagation_masks[dir][{0, 1}] #
              propagation_masks[dir][{0}] \cup propagation_masks[dir][{1}]

\* The cells of the private wave that still have more than one candidate.
UncollapsedCells == {i \in 0 .. (Size - 1) : Cardinality(Wave[i]) > 1}

\* C22: at every evaluation of the condition of the outer loop of
\* wfc_solve_inner, uncollapsed_cells is the number of cells of the private
\* wave whose mask has more than one bit.
C22_UncollapsedCounted ==
    wfc_pc = "outer" => uncollapsed_cells = Cardinality(UncollapsedCells)

\* The loop condition is evaluated after a propagate that reduced a cell to
\* one bit, with another cell still open.
C22_Witness ==
    /\ wfc_pc = "outer" /\ iterations >= 1
    /\ uncollapsed_cells >= 1
    /\ \E i \in 0 .. (Size - 1) :
          /\ i # cell_idx
          /\ Cardinality(Wave[i]) = 1 /\ Cardinality(wave_before[i]) > 1

\* The slots of the entropy heap that hold an entry of cell i.
EntriesOf(i) == {slot \in 1 .. Len(heap) : heap[slot].idx = i}

\* C23: while find_min_entropy_cell runs (at its call and between the rounds
\* of its loop) the entropy heap holds an entry of every cell with more than
\* one bit, so the heap is not found empty there; and when the final check
\* is reached every cell has exactly one bit.
C23_HeapKeepsUncollapsed ==
    /\ wfc_pc = "find" =>
          /\ \A i \in UncollapsedCells : EntriesOf(i) # {}
          /\ Len(heap) > 0
    /\ wfc_pc = "final" => \A i \in 0 .. (Size - 1) : Cardinality(Wave[i]) = 1

\* find_min_entropy_cell is called while the heap holds the entry of a
\* collapsed cell and two entries, one of them stale, of an open cell.
C23_Witness ==
    /\ wfc_pc = "find" /\ iterations >= 2
    /\ \E i \in UncollapsedCells : Cardinality(EntriesOf(i)) >= 2
    /\ \E i \in 0 .. (Size - 1) : Cardinality(Wave[i]) = 1 /\ EntriesOf(i) # {}

\* ------------------------------------------------------------------------
\* A*: the open set and its position index
\* ------------------------------------------------------------------------
\* The search loop is running: the heap and its index are live.
Searching == astar_pc \in {"loop", "neighbour"}

GridCells == 0 .. (cost_w * cost_h - 1)

\* The slots (0-based) that hold cell c.
SlotsOf(c) == {i \in 0 .. (Len(open) - 1) : open[i + 1].idx = c}

\* C24: between any two operations on the open set of astar_search, every
\* slot i holds a cell whose position index is i, a cell in no slot has
\* index -1, no cell is in two slots, no closed cell is in the heap, and
\* every parent slot has f <= the f of its children.
C24_HeapAgreesWithIndex ==
    Searching =>
        /\ \A i \in 0 .. (Len(open) - 1) : heap_pos[open[i + 1].idx] = i
        /\ \A c \in GridCells :
              /\ SlotsOf(c) = {} => heap_pos[c] = -1
              /\ Cardinality(SlotsOf(c)) <= 1
              /\ closed[c] # 0 => SlotsOf(c) = {}
        /\ \A i \in 1 .. (Len(open) - 1) :
              QLeq(open[((i - 1) \div 2) + 1].f, open[i + 1].f)

\* A heap of three or more cells that is not a sorted list, with two or
\* more cells closed.
C24_Witness ==
    /\ Searching
    /\ Len(open) >= 3
    /\ \E i, j \in 1 .. Len(open) : i < j /\ QLess(open[j].f, open[i].f)
    /\ Cardinality({c \in GridCells : closed[c] # 0}) >= 2

\* ------------------------------------------------------------------------
\* FOV: symmetry over the whole grid
\* ------------------------------------------------------------------------
\* The in-bounds transparent cells of the grid.
TransparentCells == {c \in FovCellsXY : transparent[c[1] * height + c[2]]}

\* What fov marks from each transparent origin, on this grid with this
\* radius: the returned buffer for the origin of the call, the scan of
\* scan_quadrant from a cleared buffer for every other origin.
MarkedFrom ==
    {<<a, IF a = <<ox, oy>> THEN visible ELSE VisibleFrom(a[1], a[2])>> :
        a \in TransparentCells}

\* C25: on the grid and with the radius of a returned call, for every pair
\* of in-bounds transparent cells a and b, fov with origin a marks b visible
\* if and only if fov with origin b marks a visible.
C25_TransparentPairsSymmetric ==
    FovReturned =>
        \A pair \in MarkedFrom \X MarkedFrom :
            LET a == pair[1][1]
                b == pair[2][1]
            IN pair[1][2][b[1] * height + b[2]] <=> pair[2][2][a[1] * height + a[2]]

\* A returned call on a grid with a wall and three or more transparent
\* cells, among them a pair away from the origin that see each other and a
\* pair within the radius of each other that do not.
C25_Witness ==
    /\ FovReturned /\ radius >= 2
    /\ <<ox, oy>> \in TransparentCells
    /\ TransparentCells # FovCellsXY
    /\ \E a \in TransparentCells, b \in TransparentCells :
          /\ a # b /\ a # <<ox, oy>> /\ b # <<ox, oy>>
          /\ VisibleFrom(a[1], a[2])[b[1] * height + b[2]]
          /\ VisibleFrom(b[1], b[2])[a[1] * height + a[2]]
    /\ \E a \in TransparentCells, b \in TransparentCells :
          /\ a[1] - b[1] \in -radius .. radius /\ a[2] - b[2] \in -radius .. radius
          /\ ~VisibleFrom(a[1], a[2])[b[1] * height + b[2]]
          /\ ~VisibleFrom(b[1], b[2])[a[1] * height + a[2]]

====
